---------------------------- MODULE Spec2Model ----------------------------
(***************************************************************************)
(* MainThreadTextEditor (src/unnamed/part_001): the main-thread text       *)
(* editor that mirrors the selections, options and visible ranges of a     *)
(* code editor widget to the extension host as property deltas.            *)
(*                                                                         *)
(* Three specifications share the definitions below:                       *)
(*   SpecDelta  MainThreadTextEditorProperties.generateDelta as a pure     *)
(*              function of two snapshots and a source;                    *)
(*   Spec       the property synchronisation: construction, setCodeEditor, *)
(*              the widget and document listeners, setSelections, dispose; *)
(*   SpecEdits  applyEdits against the document and the bound widget.      *)
(***************************************************************************)
EXTENDS Integers, Sequences, FiniteSets, Bags, TLC

\* ------------------------------------------------------------------ bounds

\* longest selections list of a snapshot drawn for generateDelta
MaxSelections == 2
\* longest visible-ranges list of a snapshot drawn for generateDelta
MaxVisible == 1
\* the document's version id counts content changes up to this bound
MaxVersion == 2

\* ------------------------------------------------------ optional values
\* `T | null` of the source: the empty tuple is null, <<x>> is the value x.

None == <<>>

Some(x) == <<x>>

IsSome(o) == Len(o) = 1

Val(o) == o[1]

\* string | null, and string | undefined after withNullAsUndefined
NullSource == "<null>"

UndefinedSource == "<undefined>"

withNullAsUndefined(x) == IF x = NullSource THEN UndefinedSource ELSE x

\* ------------------------------------------------------------- the data

\* A Selection / Range is its four coordinates.
Selection1111 == <<1, 1, 1, 1>>

Selection2323 == <<2, 3, 2, 3>>

RangeSet == {Selection1111, Selection2323}

Sources == {NullSource, "keyboard"}

RECURSIVE SeqsUpTo(_, _)
SeqsUpTo(S, n) ==
    IF n = 0 THEN {<<>>}
    ELSE LET shorter == SeqsUpTo(S, n - 1)
         IN  shorter \cup {Append(s, x) : s \in {t \in shorter : Len(t) = n - 1}, x \in S}

\* IResolvedTextEditorConfiguration
BaseOptions ==
    [insertSpaces |-> TRUE, tabSize |-> 4, indentSize |-> 4,
     cursorStyle |-> "Line", lineNumbers |-> "On"]

\* the base configuration and the configurations one field away from it
OptionsSet ==
    {BaseOptions,
     [BaseOptions EXCEPT !.insertSpaces = FALSE],
     [BaseOptions EXCEPT !.tabSize = 2],
     [BaseOptions EXCEPT !.indentSize = 2],
     [BaseOptions EXCEPT !.cursorStyle = "Block"],
     [BaseOptions EXCEPT !.lineNumbers = "Off"]}

\* new MainThreadTextEditorProperties(selections, options, visibleRanges)
Properties(selections, options, visibleRanges) ==
    [selections |-> selections, options |-> options, visibleRanges |-> visibleRanges]

\* the snapshots generateDelta is drawn on
Snapshots ==
    {Properties(s, o, v) :
        s \in SeqsUpTo(RangeSet, MaxSelections) \ {<<>>},
        o \in OptionsSet,
        v \in SeqsUpTo(RangeSet, MaxVisible)}

\* ----------------------------------------- MainThreadTextEditorProperties

\* _selectionsEqual without the comparison of the elements
selectionsEqual_lengthOnly(a, b) == Len(a) = Len(b)

\* equals(a, b, equalsSelection): same length, pairwise equal coordinates
selectionsEqual(a, b) ==
    /\ Len(a) = Len(b)
    /\ \A i \in 1..Len(a) : \A k \in 1..4 : a[i][k] = b[i][k]

\* equals(a, b, equalsRange)
rangesEqual(a, b) ==
    /\ Len(a) = Len(b)
    /\ \A i \in 1..Len(a) : \A k \in 1..4 : a[i][k] = b[i][k]

\* _optionsEqual without the comparison of indentSize
optionsEqual_noIndentSize(a, b) ==
    /\ a.tabSize = b.tabSize
    /\ a.insertSpaces = b.insertSpaces
    /\ a.cursorStyle = b.cursorStyle
    /\ a.lineNumbers = b.lineNumbers

\* both arguments are the options of snapshots, which are never null, so the
\* null tests of lines 141-146 fall through to the comparison of the fields
optionsEqual(a, b) ==
    /\ a.tabSize = b.tabSize
    /\ a.indentSize = b.indentSize
    /\ a.insertSpaces = b.insertSpaces
    /\ a.cursorStyle = b.cursorStyle
    /\ a.lineNumbers = b.lineNumbers

\* the delta object before the final test: each sub-record null or present
deltaFields(new, oldProps, selectionChangeSource) ==
    [selections |->
        IF ~IsSome(oldProps) \/ ~selectionsEqual(Val(oldProps).selections, new.selections)
        THEN Some([selections |-> new.selections,
                   source |-> withNullAsUndefined(selectionChangeSource)])
        ELSE None,
     options |->
        IF ~IsSome(oldProps) \/ ~optionsEqual(Val(oldProps).options, new.options)
        THEN Some(new.options)
        ELSE None,
     visibleRanges |->
        IF ~IsSome(oldProps) \/ ~rangesEqual(Val(oldProps).visibleRanges, new.visibleRanges)
        THEN Some(new.visibleRanges)
        ELSE None]

\* generateDelta with the selections sub-record (and the source) always set
generateDelta_alwaysSelections(new, oldProps, selectionChangeSource) ==
    LET delta == deltaFields(new, oldProps, selectionChangeSource)
    IN  Some([delta EXCEPT !.selections =
                 Some([selections |-> new.selections,
                       source |-> withNullAsUndefined(selectionChangeSource)])])

\* new.generateDelta(oldProps, selectionChangeSource): the delta, or null
generateDelta(new, oldProps, selectionChangeSource) ==
    LET delta == deltaFields(new, oldProps, selectionChangeSource)
    IN  IF IsSome(delta.selections) \/ IsSome(delta.options) \/ IsSome(delta.visibleRanges)
        THEN Some(delta)
        ELSE None


\* ------------------------------------------------- the widget (code editor)
\* The code editor is an editor-library object: what its getters return is
\* held in a record per widget.  doc is the text model the widget shows:
\* "this" (the model of this editor), "other", or "none".

NoEditor == "null"

Widgets == {"w1", "w2"}

\* w1 is the widget the user works in; w2 is a read-only widget that keeps
\* the configuration and the viewport it starts with
MutableWidgets == {"w1"}

\* codeEditor.getSelections(): null when the widget has no model
getSelections(ed) == IF ed.doc = "none" THEN None ELSE Some(ed.selections)

\* codeEditor.getVisibleRanges(): empty when the widget has no model
getVisibleRanges(ed) == IF ed.doc = "none" THEN <<>> ELSE ed.visibleRanges

\* new Selection(1, 1, 1, 1) when neither the editor nor a previous snapshot
\* has selections
readSelectionsFromCodeEditor(previousProperties, ed) ==
    LET fromEditor == IF IsSome(ed) THEN getSelections(Val(ed)) ELSE None
        result == IF ~IsSome(fromEditor) /\ IsSome(previousProperties)
                  THEN Some(Val(previousProperties).selections)
                  ELSE fromEditor
    IN  IF IsSome(result) THEN Val(result) ELSE <<Selection1111>>

\* The model m is [disposed, options]; a disposed model with no previous
\* snapshot throws, which is the value NoValidProperties here.
NoValidProperties == [throw |-> "No valid properties"]

readOptionsFromCodeEditor(previousProperties, m, ed) ==
    IF m.disposed
    THEN IF IsSome(previousProperties)
         THEN Val(previousProperties).options
         ELSE NoValidProperties
    ELSE LET cursorStyle ==
                 IF IsSome(ed) THEN Val(ed).cursorStyle
                 ELSE IF IsSome(previousProperties)
                      THEN Val(previousProperties).options.cursorStyle
                      ELSE "Line"
             lineNumbers ==
                 IF IsSome(ed) THEN Val(ed).lineNumbers
                 ELSE IF IsSome(previousProperties)
                      THEN Val(previousProperties).options.lineNumbers
                      ELSE "On"
         IN  [insertSpaces |-> m.options.insertSpaces,
              tabSize |-> m.options.tabSize,
              indentSize |-> m.options.indentSize,
              cursorStyle |-> cursorStyle,
              lineNumbers |-> lineNumbers]

readVisibleRangesFromCodeEditor(previousProperties, ed) ==
    IF IsSome(ed) THEN getVisibleRanges(Val(ed)) ELSE <<>>

readFromEditor(previousProperties, m, ed) ==
    Properties(readSelectionsFromCodeEditor(previousProperties, ed),
               readOptionsFromCodeEditor(previousProperties, m, ed),
               readVisibleRangesFromCodeEditor(previousProperties, ed))


\* ------------------------------------------------------------ the state

VARIABLES
    phase,                      \* "new", "live" (constructed), "disposed"
    codeEditor,                 \* this._codeEditor: NoEditor or a widget
    codeEditorListeners,        \* the widgets this._codeEditorListeners listens to
    modelListeners,             \* this._modelListeners holds onDidChangeOptions
    properties,                 \* this._properties: None or Some(snapshot)
    nextSelectionChangeSource,  \* the closure variable of setCodeEditor
    fired,                      \* what the last step fired on _onPropertiesChanged
    last,                       \* the operation or event of the last step
    calls,                      \* the calls the last step made on widget and model
    result,                     \* what the last step returned
    args,                       \* the arguments of the method the last step called
    widgets,                    \* the state of each code editor widget
    unreported,                 \* <<widget, kind>>: a change the widget has not fired its event for yet
    modelOptions,               \* this._model.getOptions()
    modelDisposed,              \* this._model.isDisposed()
    versionId,                  \* this._model.getVersionId()
    eol,                        \* the model's end-of-line sequence
    caughtUp,                   \* isCaughtUpWithContentChanges(this._model.uri)
    dPc, dOld, dNew, dSrc, dOut, \* generateDelta drawn on its own
    snippet,                    \* the insertSnippet call awaiting the clipboard
    wizardModel,                \* VmSettingsPage: this.wizard.model
    dropdowns,                  \* VmSettingsPage: the four DropDownComponents
    loading,                    \* VmSettingsPage: .loading of the four LoadingComponents
    requests,                   \* VmSettingsPage: the getRequest calls not answered yet
    pageLast,                   \* VmSettingsPage: the handler or continuation of the last step
    pageThrew,                  \* VmSettingsPage: the last step threw a TypeError
    picks,                      \* VmSettingsPage: the values the user has picked so far
    buttons,                    \* ButtonGroup: this._buttons, each Button by its element
    focused,                    \* ButtonGroup: the button that has the focus, if any
    assigned,                   \* Button: the last value given to `enabled`, if any
    clicked,                    \* Button: the buttons whose onDidClick the last step fired
    stopped,                    \* Button: the last step called DOM.EventHelper.stop
    buttonLast                  \* Button: the event or call of the last step

editorVars ==
    <<phase, codeEditor, codeEditorListeners, modelListeners, properties,
      nextSelectionChangeSource, fired>>

envVars == <<widgets, unreported, modelOptions, modelDisposed, versionId, eol, caughtUp>>

deltaVars == <<dPc, dOld, dNew, dSrc, dOut>>

pageVars == <<wizardModel, dropdowns, loading, requests, pageLast, pageThrew, picks>>

\* what the listeners and the synchronous methods of the editor leave alone
buttonVars == <<buttons, focused, assigned, clicked, stopped, buttonLast>>

asideVars == <<deltaVars, snippet, pageVars, buttonVars>>

vars == <<editorVars, last, calls, result, args, envVars, asideVars>>

\* a method that returns nothing; a returned value r is Some(r)
NoResult == None

VisibleTop == <<1, 1, 10, 1>>

VisibleBottom == <<5, 1, 15, 1>>

SelectionChoices == {<<Selection1111>>, <<Selection2323>>}

VisibleChoices == {<<VisibleTop>>, <<VisibleBottom>>}

\* the (cursorStyle, lineNumbers) pairs a widget's configuration takes
WidgetOptionChoices == {<<"Line", "On">>, <<"Block", "Off">>}

ModelOptionChoices ==
    {[insertSpaces |-> TRUE, tabSize |-> 4, indentSize |-> 4],
     [insertSpaces |-> FALSE, tabSize |-> 2, indentSize |-> 2]}

EventSources == {"keyboard"}

Docs == {"this", "other", "none"}

InitWidgets ==
    [w \in Widgets |->
        IF w = "w1"
        THEN [doc |-> "this", selections |-> <<Selection1111>>,
              cursorStyle |-> "Line", lineNumbers |-> "On",
              visibleRanges |-> <<VisibleTop>>, readOnly |-> FALSE]
        ELSE [doc |-> "this", selections |-> <<Selection2323>>,
              cursorStyle |-> "Block", lineNumbers |-> "Off",
              visibleRanges |-> <<VisibleBottom>>, readOnly |-> TRUE]]

InitDelta ==
    /\ dPc = "idle"
    /\ dOld = None
    /\ dNew = Properties(<<Selection1111>>, BaseOptions, <<>>)
    /\ dSrc = NullSource
    /\ dOut = None

\* before the constructor runs
InitEditor ==
    /\ phase = "new"
    /\ codeEditor = NoEditor
    /\ codeEditorListeners = {}
    /\ modelListeners = FALSE
    /\ properties = None
    /\ nextSelectionChangeSource = NullSource
    /\ fired = <<>>
    /\ last = "none"
    /\ calls = <<>>
    /\ result = NoResult
    /\ args = <<>>
    /\ snippet = None

InitEnv ==
    /\ widgets = InitWidgets
    /\ unreported = {}
    /\ modelOptions = [insertSpaces |-> TRUE, tabSize |-> 4, indentSize |-> 4]
    /\ modelDisposed = FALSE
    /\ versionId = 0
    /\ eol = "LF"
    /\ caughtUp = TRUE

\* VmSettingsPage after initialize: the controls exist, nothing was fetched
InitPage ==
    /\ wizardModel = [vmName |-> None, vmImage |-> None, vmImageSKU |-> None,
                      vmImageVersion |-> None, vmSize |-> None]
    /\ dropdowns = [d \in {"image", "sku", "version", "size"} |->
                       [value |-> None, values |-> <<>>]]
    /\ loading = [d \in {"image", "sku", "version", "size"} |-> FALSE]
    /\ requests = EmptyBag
    /\ pageLast = "initialize"
    /\ pageThrew = FALSE
    /\ picks = 0

\* before a ButtonGroup is constructed
InitButtons ==
    /\ buttons = <<>>
    /\ focused = None
    /\ assigned = <<>>
    /\ clicked = <<>>
    /\ stopped = FALSE
    /\ buttonLast = [op |-> "none", index |-> 0, key |-> "", value |-> FALSE]

Init == InitEditor /\ InitEnv /\ InitDelta /\ InitPage /\ InitButtons

\* --------------------------------------------------- MainThreadTextEditor
\* The methods are operators on `self`, the fields a method reads and
\* writes, with the deltas it fires appended to self.fired.

Self ==
    [codeEditor |-> codeEditor,
     codeEditorListeners |-> codeEditorListeners,
     nextSelectionChangeSource |-> nextSelectionChangeSource,
     properties |-> properties,
     fired |-> <<>>]

Model(options) == [disposed |-> modelDisposed, options |-> options]

Editor(self, ws) ==
    IF self.codeEditor = NoEditor THEN None ELSE Some(ws[self.codeEditor])

\* _setProperties without this._onPropertiesChanged.fire(delta)
setProperties_noFire(self, newProperties, selectionChangeSource) ==
    [self EXCEPT !.properties = Some(newProperties)]

\* _setProperties without the `if (delta)` test before firing
setProperties_alwaysFire(self, newProperties, selectionChangeSource) ==
    [self EXCEPT
        !.properties = Some(newProperties),
        !.fired = Append(self.fired,
                         deltaFields(newProperties, self.properties, selectionChangeSource))]

setProperties(self, newProperties, selectionChangeSource) ==
    LET delta == generateDelta(newProperties, self.properties, selectionChangeSource)
    IN  [self EXCEPT
            !.properties = Some(newProperties),
            !.fired = IF IsSome(delta) THEN Append(self.fired, Val(delta)) ELSE self.fired]

updatePropertiesNow(self, selectionChangeSource, m, ws) ==
    setProperties(self,
                  readFromEditor(self.properties, m, Editor(self, ws)),
                  selectionChangeSource)

\* updateProperties without the isCaughtUpWithContentChanges test
updateProperties_noDefer(self, selectionChangeSource, isCaughtUp, m, ws) ==
    updatePropertiesNow([self EXCEPT !.nextSelectionChangeSource = NullSource],
                        selectionChangeSource, m, ws)

\* updateProperties that keeps the first source it deferred
updateProperties_keepFirstSource(self, selectionChangeSource, isCaughtUp, m, ws) ==
    IF isCaughtUp
    THEN updatePropertiesNow([self EXCEPT !.nextSelectionChangeSource = NullSource],
                             selectionChangeSource, m, ws)
    ELSE [self EXCEPT !.nextSelectionChangeSource =
              IF self.nextSelectionChangeSource # NullSource
              THEN self.nextSelectionChangeSource ELSE selectionChangeSource]

\* the closure updateProperties of setCodeEditor
updateProperties(self, selectionChangeSource, isCaughtUp, m, ws) ==
    IF isCaughtUp
    THEN updatePropertiesNow([self EXCEPT !.nextSelectionChangeSource = NullSource],
                             selectionChangeSource, m, ws)
    ELSE [self EXCEPT !.nextSelectionChangeSource = selectionChangeSource]

\* the listener without its _updatePropertiesNow
onIsCaughtUp_noRecompute(self, uri, m, ws) ==
    IF uri = "this"
    THEN [self EXCEPT !.nextSelectionChangeSource = NullSource]
    ELSE self

\* the listener without the test of the uri
onIsCaughtUp_anyUri(self, uri, m, ws) ==
    updatePropertiesNow([self EXCEPT !.nextSelectionChangeSource = NullSource],
                        self.nextSelectionChangeSource, m, ws)

\* the listener without `nextSelectionChangeSource = null`
onIsCaughtUp_keepLatch(self, uri, m, ws) ==
    IF uri = "this"
    THEN updatePropertiesNow(self, self.nextSelectionChangeSource, m, ws)
    ELSE self

\* the onIsCaughtUpWithContentChanges listener of setCodeEditor
onIsCaughtUp(self, uri, m, ws) ==
    IF uri = "this"
    THEN updatePropertiesNow([self EXCEPT !.nextSelectionChangeSource = NullSource],
                             self.nextSelectionChangeSource, m, ws)
    ELSE self

\* setCodeEditor without the hasCodeEditor test at its head
setCodeEditor_noSameTest(self, ce, m, ws) ==
    LET cleared == [self EXCEPT !.codeEditorListeners = {},
                                !.nextSelectionChangeSource = NullSource,
                                !.codeEditor = ce]
    IN  IF ce # NoEditor
        THEN updatePropertiesNow([cleared EXCEPT !.codeEditorListeners = {ce}],
                                 NullSource, m, ws)
        ELSE cleared

\* setCodeEditor that reads the properties again after a detach too
setCodeEditor_recomputeOnDetach(self, ce, m, ws) ==
    IF self.codeEditor = ce
    THEN self
    ELSE updatePropertiesNow([self EXCEPT !.codeEditorListeners =
                                              IF ce # NoEditor THEN {ce} ELSE {},
                                          !.nextSelectionChangeSource = NullSource,
                                          !.codeEditor = ce],
                             NullSource, m, ws)

\* setCodeEditor without this._codeEditorListeners.clear()
setCodeEditor_keepListeners(self, ce, m, ws) ==
    IF self.codeEditor = ce
    THEN self
    ELSE LET kept == [self EXCEPT !.nextSelectionChangeSource = NullSource,
                                  !.codeEditor = ce]
         IN  IF ce # NoEditor
             THEN updatePropertiesNow(
                      [kept EXCEPT !.codeEditorListeners = self.codeEditorListeners \cup {ce}],
                      NullSource, m, ws)
             ELSE kept

\* setCodeEditor(codeEditor): the listeners of the old widget are cleared, a
\* new closure (with its own nextSelectionChangeSource) listens to the new one
setCodeEditor(self, ce, m, ws) ==
    IF self.codeEditor = ce
    THEN self
    ELSE LET cleared == [self EXCEPT !.codeEditorListeners = {},
                                     !.nextSelectionChangeSource = NullSource,
                                     !.codeEditor = ce]
         IN  IF ce # NoEditor
             THEN updatePropertiesNow([cleared EXCEPT !.codeEditorListeners = {ce}],
                                      NullSource, m, ws)
             ELSE cleared

Commit(self) ==
    /\ codeEditor' = self.codeEditor
    /\ codeEditorListeners' = self.codeEditorListeners
    /\ nextSelectionChangeSource' = self.nextSelectionChangeSource
    /\ properties' = self.properties
    /\ fired' = self.fired

Did(op) == last' = op


Quiet == calls' = <<>> /\ result' = NoResult /\ args' = <<>>

\* an event of widget w: no call is made and nothing is returned
QuietEvent(w) == calls' = <<>> /\ result' = NoResult /\ args' = <<w>>

\* a listener of _codeEditorListeners runs only while it is registered on w;
\* last names the listener (or method) of this editor that ran, if one did
Deliver(w, op, handled) ==
    IF w \in codeEditorListeners
    THEN Commit(handled) /\ Did(op)
    ELSE Commit(Self) /\ Did("none")

\* the values an event of widget w may carry: w2 never changes its state
Choices(w, choices, current) == IF w \in MutableWidgets THEN choices ELSE {current}

\* A widget whose cursors or options were changed by a call of the editor
\* fires the event of that change before it fires anything else, and before
\* the editor is called again: Settled when nothing is left to fire,
\* SettledBut(w, kind) when at most that event of w is.
Settled == unreported = {}

SettledBut(w, kind) == unreported \subseteq {<<w, kind>>}

\* constructor: the options listener, setCodeEditor(codeEditor), then
\* _updatePropertiesNow(null)
Construct(ce) ==
    /\ Settled
    /\ phase = "new"
    /\ ~modelDisposed
    /\ phase' = "live"
    /\ modelListeners' = TRUE
    /\ Commit(updatePropertiesNow(
                  setCodeEditor(Self, ce, Model(modelOptions), widgets),
                  NullSource, Model(modelOptions), widgets))
    /\ Did("constructor")
    /\ Quiet
    /\ UNCHANGED <<envVars, asideVars>>

\* dispose()
Dispose ==
    /\ Settled
    /\ phase = "live"
    /\ phase' = "disposed"
    /\ modelListeners' = FALSE
    /\ Commit([Self EXCEPT !.codeEditor = NoEditor,
                           !.codeEditorListeners = {},
                           !.nextSelectionChangeSource = NullSource])
    /\ Did("dispose")
    /\ Quiet
    /\ UNCHANGED <<envVars, asideVars>>

\* setCodeEditor(ce) called by the owner of the editor; args keeps, after
\* ce, the widget that was bound when the call was made
SetCodeEditor(ce) ==
    /\ Settled
    /\ phase = "live"
    /\ Commit(setCodeEditor(Self, ce, Model(modelOptions), widgets))
    /\ Did("setCodeEditor")
    /\ calls' = <<>>
    /\ result' = NoResult
    /\ args' = <<ce, codeEditor>>
    /\ UNCHANGED <<phase, modelListeners, envVars, asideVars>>

\* the widget's selection becomes sel and it fires onDidChangeCursorSelection
OnDidChangeCursorSelection(w, sel, src) ==
    /\ SettledBut(w, "selection")
    /\ widgets' = [widgets EXCEPT ![w].selections = sel]
    /\ Deliver(w, "onDidChangeCursorSelection",
               updateProperties(Self, src, caughtUp, Model(modelOptions), widgets'))
    /\ QuietEvent(w)
    /\ unreported' = unreported \ {<<w, "selection">>}
    /\ UNCHANGED <<phase, modelListeners, modelOptions, modelDisposed, versionId, eol,
                   caughtUp, asideVars>>

\* the widget's options change and it fires onDidChangeConfiguration
OnDidChangeConfiguration(w, o) ==
    /\ SettledBut(w, "configuration")
    /\ widgets' = [widgets EXCEPT ![w].cursorStyle = o[1], ![w].lineNumbers = o[2]]
    /\ Deliver(w, "onDidChangeConfiguration",
               updateProperties(Self, NullSource, caughtUp, Model(modelOptions), widgets'))
    /\ QuietEvent(w)
    /\ unreported' = unreported \ {<<w, "configuration">>}
    /\ UNCHANGED <<phase, modelListeners, modelOptions, modelDisposed, versionId, eol,
                   caughtUp, asideVars>>

\* the widget is laid out again and fires onDidLayoutChange
OnDidLayoutChange(w, vis) ==
    /\ Settled
    /\ widgets' = [widgets EXCEPT ![w].visibleRanges = vis]
    /\ Deliver(w, "onDidLayoutChange",
               updateProperties(Self, NullSource, caughtUp, Model(modelOptions), widgets'))
    /\ QuietEvent(w)
    /\ unreported' = unreported
    /\ UNCHANGED <<phase, modelListeners, modelOptions, modelDisposed, versionId, eol,
                   caughtUp, asideVars>>

\* the widget scrolls and fires onDidScrollChange
OnDidScrollChange(w, vis) ==
    /\ Settled
    /\ widgets' = [widgets EXCEPT ![w].visibleRanges = vis]
    /\ Deliver(w, "onDidScrollChange",
               updateProperties(Self, NullSource, caughtUp, Model(modelOptions), widgets'))
    /\ QuietEvent(w)
    /\ unreported' = unreported
    /\ UNCHANGED <<phase, modelListeners, modelOptions, modelDisposed, versionId, eol,
                   caughtUp, asideVars>>

\* the widget is given another text model and fires onDidChangeModel; the
\* cursor and the viewport of the new model start at its top
OnDidChangeModel(w, d) ==
    /\ Settled
    /\ d # widgets[w].doc
    /\ widgets' = [widgets EXCEPT ![w].doc = d,
                                  ![w].selections = <<Selection1111>>,
                                  ![w].visibleRanges = <<VisibleTop>>]
    /\ Deliver(w, "onDidChangeModel",
               setCodeEditor(Self, NoEditor, Model(modelOptions), widgets'))
    /\ QuietEvent(w)
    /\ unreported' = unreported \ {<<w, "selection">>}
    /\ UNCHANGED <<phase, modelListeners, modelOptions, modelDisposed, versionId, eol,
                   caughtUp, asideVars>>

\* the options of the text model change and it fires onDidChangeOptions
OnDidChangeOptions(o) ==
    /\ Settled
    /\ o # modelOptions
    /\ modelOptions' = o
    /\ IF modelListeners
       THEN Commit(updatePropertiesNow(Self, NullSource, Model(o), widgets))
            /\ Did("onDidChangeOptions")
       ELSE Commit(Self) /\ Did("none")
    /\ Quiet
    /\ UNCHANGED <<phase, modelListeners, widgets, unreported, modelDisposed, versionId, eol,
                   caughtUp, asideVars>>

\* the content of the text model changes: the extension host has not been
\* told yet
ContentChange ==
    /\ Settled
    /\ versionId < MaxVersion
    /\ versionId' = versionId + 1
    /\ caughtUp' = FALSE
    /\ Commit(Self)
    /\ Did("none")
    /\ Quiet
    /\ UNCHANGED <<phase, modelListeners, widgets, unreported, modelOptions, modelDisposed, eol,
                   asideVars>>

\* mainThreadDocuments fires onIsCaughtUpWithContentChanges(uri)
OnIsCaughtUpWithContentChanges(uri) ==
    /\ Settled
    /\ caughtUp' = (IF uri = "this" THEN TRUE ELSE caughtUp)
    /\ IF codeEditorListeners # {}
       THEN Commit(onIsCaughtUp(Self, uri, Model(modelOptions), widgets))
            /\ Did(IF uri = "this" THEN "onIsCaughtUpWithContentChanges"
                                    ELSE "onIsCaughtUpWithContentChanges(other)")
       ELSE Commit(Self) /\ Did("none")
    /\ Quiet
    /\ UNCHANGED <<phase, modelListeners, widgets, unreported, modelOptions, modelDisposed,
                   versionId, eol, asideVars>>

\* the widget gains or loses the focus and fires onDidFocusEditorWidget or
\* onDidBlurEditorWidget: the listener tells the focus tracker
OnDidFocusEditorWidget(w) ==
    /\ Settled
    /\ IF w \in codeEditorListeners
       THEN calls' = << <<"onGainedFocus">> >> /\ Did("onDidFocusEditorWidget")
       ELSE calls' = <<>> /\ Did("none")
    /\ Commit(Self)
    /\ result' = NoResult
    /\ args' = <<w>>
    /\ UNCHANGED <<phase, modelListeners, envVars, asideVars>>

OnDidBlurEditorWidget(w) ==
    /\ Settled
    /\ IF w \in codeEditorListeners
       THEN calls' = << <<"onLostFocus">> >> /\ Did("onDidBlurEditorWidget")
       ELSE calls' = <<>> /\ Did("none")
    /\ Commit(Self)
    /\ result' = NoResult
    /\ args' = <<w>>
    /\ UNCHANGED <<phase, modelListeners, envVars, asideVars>>

\* setSelections that also takes the selections into the snapshot while a
\* widget is bound
setSelections_alsoSnapshot(self, selections) ==
    [self |-> setProperties(self,
                            Properties(selections, Val(self.properties).options,
                                       Val(self.properties).visibleRanges),
                            NullSource),
     calls |-> IF self.codeEditor # NoEditor
               THEN << <<"setSelections", selections>> >> ELSE <<>>]

\* setSelections that lifts no selection while no widget is bound
setSelections_dropUnbound(self, selections) ==
    IF self.codeEditor # NoEditor
    THEN [self |-> self, calls |-> << <<"setSelections", selections>> >>]
    ELSE [self |-> self, calls |-> <<>>]

\* setSelections(selections): the editor after the call and the calls made
\* on the widget
setSelections(self, selections) ==
    IF self.codeEditor # NoEditor
    THEN [self |-> self, calls |-> << <<"setSelections", selections>> >>]
    ELSE [self |-> setProperties(self,
                                 Properties(selections, Val(self.properties).options,
                                            Val(self.properties).visibleRanges),
                                 NullSource),
          calls |-> <<>>]

\* setSelections(sel); a bound widget is given at least one selection, which
\* moves its cursors, and reports the move by a later event
SetSelections(sel) ==
    /\ Settled
    /\ phase = "live"
    /\ codeEditor # NoEditor => sel # <<>>
    /\ LET r == setSelections(Self, sel)
       IN  /\ Commit(r.self)
           /\ calls' = r.calls
           /\ widgets' = (IF codeEditor # NoEditor
                          THEN [widgets EXCEPT ![codeEditor].selections = sel]
                          ELSE widgets)
    /\ result' = NoResult
    /\ args' = <<sel>>
    /\ Did("setSelections")
    /\ unreported' = (IF codeEditor # NoEditor /\ sel # widgets[codeEditor].selections
                      THEN unreported \cup {<<codeEditor, "selection">>}
                      ELSE unreported)
    /\ UNCHANGED <<phase, modelListeners, modelOptions, modelDisposed, versionId, eol,
                   caughtUp, asideVars>>

\* ---------------------------------------------------------------- applyEdits

Undefined == "<undefined>"

EndOfLines == {"LF", "CRLF"}

\* ISingleEditOperation
Edit(range, text) == [range |-> range, text |-> text, forceMoveMarkers |-> Undefined]

EditBatches ==
    {<<Edit(Selection1111, "a")>>,
     <<Edit(Selection1111, "a"), Edit(Selection2323, "b")>>}

\* IApplyEditsOptions
ApplyEditsOptions ==
    [setEndOfLine : EndOfLines \cup {Undefined},
     undoStopBefore : BOOLEAN,
     undoStopAfter : BOOLEAN]

\* codeEditor.executeEdits(source, edits) of the editor library: a read-only
\* widget, or one without a model, applies nothing and returns false
executeEdits(ed) == ~ed.readOnly /\ ed.doc # "none"

\* edits.map(edit => ({range: Range.lift(edit.range), text, forceMoveMarkers}))
transformedEdits(edits) ==
    [i \in 1..Len(edits) |->
        [range |-> edits[i].range, text |-> edits[i].text,
         forceMoveMarkers |-> edits[i].forceMoveMarkers]]

\* applyEdits that pushes the undo stop after the edits whatever opts says
applyEdits_alwaysStopAfter(ce, ed, modelVersionId, versionIdCheck, edits, opts) ==
    IF modelVersionId # versionIdCheck
    THEN [result |-> FALSE, calls |-> <<>>]
    ELSE IF ce = NoEditor
    THEN [result |-> FALSE, calls |-> <<>>]
    ELSE [result |-> TRUE,
          calls |->
              (IF opts.setEndOfLine # Undefined
               THEN <<<<"pushEOL", opts.setEndOfLine>>>> ELSE <<>>)
              \o (IF opts.undoStopBefore THEN <<<<"pushUndoStop">>>> ELSE <<>>)
              \o <<<<"executeEdits", transformedEdits(edits), executeEdits(Val(ed))>>>>
              \o <<<<"pushUndoStop">>>>]

\* applyEdits without the version test
applyEdits_noVersionCheck(ce, ed, modelVersionId, versionIdCheck, edits, opts) ==
    IF ce = NoEditor
    THEN [result |-> FALSE, calls |-> <<>>]
    ELSE [result |-> TRUE,
          calls |->
              (IF opts.setEndOfLine # Undefined
               THEN <<<<"pushEOL", opts.setEndOfLine>>>> ELSE <<>>)
              \o (IF opts.undoStopBefore THEN <<<<"pushUndoStop">>>> ELSE <<>>)
              \o <<<<"executeEdits", transformedEdits(edits), executeEdits(Val(ed))>>>>
              \o (IF opts.undoStopAfter THEN <<<<"pushUndoStop">>>> ELSE <<>>)]

\* applyEdits with pushEOL moved before the _codeEditor test
applyEdits_eolFirst(ce, ed, modelVersionId, versionIdCheck, edits, opts) ==
    IF modelVersionId # versionIdCheck
    THEN [result |-> FALSE, calls |-> <<>>]
    ELSE IF ce = NoEditor
    THEN [result |-> FALSE,
          calls |-> IF opts.setEndOfLine # Undefined
                    THEN <<<<"pushEOL", opts.setEndOfLine>>>> ELSE <<>>]
    ELSE [result |-> TRUE,
          calls |->
              (IF opts.setEndOfLine # Undefined
               THEN <<<<"pushEOL", opts.setEndOfLine>>>> ELSE <<>>)
              \o (IF opts.undoStopBefore THEN <<<<"pushUndoStop">>>> ELSE <<>>)
              \o <<<<"executeEdits", transformedEdits(edits), executeEdits(Val(ed))>>>>
              \o (IF opts.undoStopAfter THEN <<<<"pushUndoStop">>>> ELSE <<>>)]

\* applyEdits(versionIdCheck, edits, opts): what it returns and the calls it
\* makes, in order; an executeEdits call is recorded with what the widget
\* returned, which applyEdits does not read
applyEdits(ce, ed, modelVersionId, versionIdCheck, edits, opts) ==
    IF modelVersionId # versionIdCheck
    THEN [result |-> FALSE, calls |-> <<>>]
    ELSE IF ce = NoEditor
    THEN [result |-> FALSE, calls |-> <<>>]
    ELSE [result |-> TRUE,
          calls |->
              (IF opts.setEndOfLine # Undefined
               THEN <<<<"pushEOL", opts.setEndOfLine>>>> ELSE <<>>)
              \o (IF opts.undoStopBefore THEN <<<<"pushUndoStop">>>> ELSE <<>>)
              \o <<<<"executeEdits", transformedEdits(edits), executeEdits(Val(ed))>>>>
              \o (IF opts.undoStopAfter THEN <<<<"pushUndoStop">>>> ELSE <<>>)]

\* model.pushEOL(e) among the calls: the end of line the model ends with
EolAfter(cs, e) ==
    LET pushes == SelectSeq(cs, LAMBDA c : c[1] = "pushEOL")
    IN  IF pushes = <<>> THEN e ELSE pushes[Len(pushes)][2]

\* whether an executeEdits among the calls changed the text of this model
EditedThisModel(cs, ed) ==
    /\ IsSome(ed)
    /\ Val(ed).doc = "this"
    /\ \E i \in 1..Len(cs) : cs[i][1] = "executeEdits" /\ cs[i][3]

\* The model's version grows by one for a changed end of line and by one for
\* an executed batch of edits, and the extension host is then behind.
ApplyEdits(versionIdCheck, edits, opts) ==
    /\ Settled
    /\ phase = "live"
    /\ LET r == applyEdits(codeEditor, Editor(Self, widgets), versionId,
                           versionIdCheck, edits, opts)
           newEol == EolAfter(r.calls, eol)
           bumps == (IF newEol # eol THEN 1 ELSE 0)
                    + (IF EditedThisModel(r.calls, Editor(Self, widgets)) THEN 1 ELSE 0)
       IN  /\ versionId + bumps <= MaxVersion
           /\ result' = Some(r.result)
           /\ calls' = r.calls
           /\ args' = <<versionIdCheck, edits, opts>>
           /\ eol' = newEol
           /\ versionId' = versionId + bumps
           /\ caughtUp' = (IF bumps > 0 THEN FALSE ELSE caughtUp)
    /\ Commit(Self)
    /\ Did("applyEdits")
    /\ UNCHANGED <<phase, modelListeners, widgets, unreported, modelOptions, modelDisposed, asideVars>>

\* -------------------------------------------------------------- insertSnippet

\* a template as its pieces of text and variables
Templates == {<<"hello">>, <<"pre ", "$CLIPBOARD">>}

\* SnippetParser.guessNeedsClipboard(template): the template names CLIPBOARD
guessNeedsClipboard(template) ==
    \E i \in DOMAIN template : template[i] \in {"$CLIPBOARD", "${CLIPBOARD}"}

ClipboardTexts == {"copied"}

\* IUndoStopOptions
UndoStopOptions ==
    {[undoStopBefore |-> TRUE, undoStopAfter |-> FALSE],
     [undoStopBefore |-> FALSE, undoStopAfter |-> TRUE]}

\* the selections a widget takes in the runs of insertSnippet: the second
\* cursor of the last one leaves the primary cursor where it is
SnippetSelectionChoices ==
    SelectionChoices \cup {<<Selection1111, Selection2323>>}

\* codeEditor.hasModel()
hasModel(ed) == ed.doc # "none"

\* the version of the model the widget shows; the other model stays at 0
versionOf(ed, thisVersionId) == IF ed.doc = "this" THEN thisVersionId ELSE 0

\* codeEditor.getPosition(): where the primary cursor is
getPosition(ed) ==
    IF ed.doc = "none" THEN None
    ELSE Some(<<ed.selections[1][3], ed.selections[1][4]>>)

\* new EditorState(codeEditor, CodeEditorStateFlag.Value | CodeEditorStateFlag.Position):
\* Value keeps the model and its version, Position the primary cursor
EditorState(ed, thisVersionId) ==
    [modelVersionId |-> IF ed.doc = "none" THEN None
                        ELSE Some(<<ed.doc, versionOf(ed, thisVersionId)>>),
     position |-> getPosition(ed)]

TypeError == <<"throw", "TypeError">>

\* state.validate(this._codeEditor): the state of the widget given is taken
\* again and compared; taking it of null reads a property of null
validate(state, edNow, thisVersionId) ==
    IF ~IsSome(edNow) THEN TypeError
    ELSE Some(state = EditorState(Val(edNow), thisVersionId))

\* the lines after the clipboard with focus before setSelections
insertSnippetTail_focusFirst(edNow, template, ranges, opts, clipboardText) ==
    IF ~IsSome(edNow)
    THEN [result |-> TypeError, calls |-> <<>>]
    ELSE [result |-> Some(TRUE),
          calls |-> << <<"focus">>,
                       <<"setSelections", ranges>>,
                       <<"insert", template,
                         [overwriteBefore |-> 0, overwriteAfter |-> 0,
                          undoStopBefore |-> opts.undoStopBefore,
                          undoStopAfter |-> opts.undoStopAfter,
                          clipboardText |-> clipboardText]>> >>]

\* the lines after the clipboard: SnippetController2.get, setSelections,
\* focus and insert on this._codeEditor
insertSnippetTail(edNow, template, ranges, opts, clipboardText) ==
    IF ~IsSome(edNow)
    THEN [result |-> TypeError, calls |-> <<>>]
    ELSE [result |-> Some(TRUE),
          calls |-> << <<"setSelections", ranges>>,
                       <<"focus">>,
                       <<"insert", template,
                         [overwriteBefore |-> 0, overwriteAfter |-> 0,
                          undoStopBefore |-> opts.undoStopBefore,
                          undoStopAfter |-> opts.undoStopAfter,
                          clipboardText |-> clipboardText]>> >>]

\* insertSnippet that reads the clipboard before it looks at the widget
insertSnippet_noWidgetTest(ce, ed, thisVersionId, template, ranges, opts) ==
    IF guessNeedsClipboard(template)
    THEN [pc |-> "await", result |-> NoResult, calls |-> << <<"readText">> >>,
          state |-> IF IsSome(ed) THEN Some(EditorState(Val(ed), thisVersionId)) ELSE None]
    ELSE IF ce = NoEditor \/ ~hasModel(Val(ed))
    THEN [pc |-> "done", result |-> Some(FALSE), calls |-> <<>>, state |-> None]
    ELSE [pc |-> "done", state |-> None] @@
         insertSnippetTail(ed, template, ranges, opts, Undefined)

\* insertSnippet(template, ranges, opts) up to its await, or to its end when
\* the clipboard is not read
insertSnippet(ce, ed, thisVersionId, template, ranges, opts) ==
    IF ce = NoEditor \/ ~hasModel(Val(ed))
    THEN [pc |-> "done", result |-> Some(FALSE), calls |-> <<>>, state |-> None]
    ELSE IF guessNeedsClipboard(template)
    THEN [pc |-> "await", result |-> NoResult, calls |-> << <<"readText">> >>,
          state |-> Some(EditorState(Val(ed), thisVersionId))]
    ELSE [pc |-> "done", state |-> None] @@
         insertSnippetTail(ed, template, ranges, opts, Undefined)

\* insertSnippet from the await on: readText() gave clipboardText
insertSnippetResume(pending, edNow, thisVersionId, clipboardText) ==
    LET valid == validate(Val(pending.state), edNow, thisVersionId)
    IN  IF valid = TypeError THEN [result |-> TypeError, calls |-> <<>>]
        ELSE IF ~Val(valid) THEN [result |-> Some(FALSE), calls |-> <<>>]
        ELSE insertSnippetTail(edNow, pending.template, pending.ranges,
                               pending.opts, clipboardText)

\* what the calls of insertSnippet do to the widget: setSelections moves its
\* cursors; a widget that is not read-only takes the text
WidgetsAfterSnippet(cs, ce, ws) ==
    IF \E i \in DOMAIN cs : cs[i][1] = "setSelections"
    THEN [ws EXCEPT ![ce].selections =
              (CHOOSE c \in {cs[i] : i \in DOMAIN cs} : c[1] = "setSelections")[2]]
    ELSE ws

\* whether the insert among the calls changed the text of this model
SnippetEditedThisModel(cs, ce, ws) ==
    /\ \E i \in DOMAIN cs : cs[i][1] = "insert"
    /\ ws[ce].doc = "this"
    /\ ~ws[ce].readOnly

\* insertSnippet is called; one call is outstanding at a time
InsertSnippet(template, ranges, opts) ==
    /\ Settled
    /\ phase = "live"
    /\ snippet = None
    /\ LET r == insertSnippet(codeEditor, Editor(Self, widgets), versionId,
                              template, ranges, opts)
           bump == IF codeEditor # NoEditor
                      /\ SnippetEditedThisModel(r.calls, codeEditor, widgets)
                   THEN 1 ELSE 0
       IN  /\ versionId + bump <= MaxVersion
           /\ snippet' = (IF r.pc = "await"
                          THEN Some([template |-> template, ranges |-> ranges,
                                     opts |-> opts, state |-> r.state,
                                     widget |-> codeEditor,
                                     selections |-> IF IsSome(Editor(Self, widgets))
                                                    THEN widgets[codeEditor].selections
                                                    ELSE <<>>,
                                     versionId |-> IF IsSome(Editor(Self, widgets))
                                                   THEN versionOf(widgets[codeEditor], versionId)
                                                   ELSE 0])
                          ELSE None)
           /\ result' = r.result
           /\ calls' = r.calls
           /\ widgets' = (IF codeEditor # NoEditor
                          THEN WidgetsAfterSnippet(r.calls, codeEditor, widgets)
                          ELSE widgets)
           /\ versionId' = versionId + bump
           /\ caughtUp' = (IF bump > 0 THEN FALSE ELSE caughtUp)
    /\ args' = <<template, ranges, opts>>
    /\ Commit(Self)
    /\ Did("insertSnippet")
    /\ unreported' = (IF widgets' # widgets
                      THEN unreported \cup {<<codeEditor, "selection">>}
                      ELSE unreported)
    /\ UNCHANGED <<phase, modelListeners, modelOptions, modelDisposed, eol, deltaVars,
                   pageVars, buttonVars>>

\* readText() resolves and insertSnippet goes on, whatever became of the
\* editor meanwhile
InsertSnippetResume(clipboardText) ==
    /\ Settled
    /\ snippet # None
    /\ LET r == insertSnippetResume(Val(snippet), Editor(Self, widgets), versionId,
                                    clipboardText)
           bump == IF codeEditor # NoEditor
                      /\ SnippetEditedThisModel(r.calls, codeEditor, widgets)
                   THEN 1 ELSE 0
       IN  /\ versionId + bump <= MaxVersion
           /\ result' = r.result
           /\ calls' = r.calls
           /\ widgets' = (IF codeEditor # NoEditor
                          THEN WidgetsAfterSnippet(r.calls, codeEditor, widgets)
                          ELSE widgets)
           /\ versionId' = versionId + bump
           /\ caughtUp' = (IF bump > 0 THEN FALSE ELSE caughtUp)
    /\ snippet' = None
    /\ args' = <<clipboardText>>
    /\ Commit(Self)
    /\ Did("insertSnippet.resume")
    /\ unreported' = (IF widgets' # widgets
                      THEN unreported \cup {<<codeEditor, "selection">>}
                      ELSE unreported)
    /\ UNCHANGED <<phase, modelListeners, modelOptions, modelDisposed, eol, deltaVars,
                   pageVars, buttonVars>>

\* ------------------------------------------------------------ setConfiguration

\* a field of ITextEditorConfigurationUpdate: undefined is None, 'auto' and
\* 'tabSize' are the words, a value v is Given(v)
Auto == <<"auto">>

TabSizeWord == <<"tabSize">>

Given(v) == <<"value", v>>

ValueOf(f) == f[2]

\* ITextEditorConfigurationUpdate
Update(tabSize, insertSpaces, indentSize, cursorStyle, lineNumbers) ==
    [tabSize |-> tabSize, insertSpaces |-> insertSpaces, indentSize |-> indentSize,
     cursorStyle |-> cursorStyle, lineNumbers |-> lineNumbers]

\* the updates tried: nothing, sizes, 'tabSize' with and without a tab size,
\* 'auto' with and without a value beside it, and the widget's two options
ConfigurationUpdates ==
    {Update(None, None, None, None, None),
     Update(Given(2), None, None, None, None),
     Update(None, Given(FALSE), TabSizeWord, None, None),
     Update(Given(2), None, TabSizeWord, None, None),
     Update(None, None, Given(2), None, None),
     Update(Auto, None, None, None, None),
     Update(Given(2), Auto, None, None, None),
     Update(None, None, None, Some("Block"), Some("Off")),
     Update(Given(2), None, None, Some("Block"), None),
     Update(None, None, None, None, Some("Relative"))}

\* this._modelService.getCreationOptions(language, uri, isForSimpleWidget)
CreationOptions == [insertSpaces |-> TRUE, tabSize |-> 4, indentSize |-> 4]

\* _setIndentConfiguration(newConfiguration): the call it makes on the model
setIndentConfiguration(newConfiguration, creationOpts) ==
    IF newConfiguration.tabSize = Auto \/ newConfiguration.insertSpaces = Auto
    THEN <<"model.detectIndentation",
           IF newConfiguration.insertSpaces # Auto /\ newConfiguration.insertSpaces # None
           THEN ValueOf(newConfiguration.insertSpaces) ELSE creationOpts.insertSpaces,
           IF newConfiguration.tabSize # Auto /\ newConfiguration.tabSize # None
           THEN ValueOf(newConfiguration.tabSize) ELSE creationOpts.tabSize>>
    ELSE LET insertSpaces == IF newConfiguration.insertSpaces # None
                             THEN Some(ValueOf(newConfiguration.insertSpaces)) ELSE None
             tabSize == IF newConfiguration.tabSize # None
                        THEN Some(ValueOf(newConfiguration.tabSize)) ELSE None
             indentSize ==
                 IF newConfiguration.indentSize = None THEN None
                 ELSE IF newConfiguration.indentSize = TabSizeWord
                 THEN Some(IF IsSome(tabSize) THEN Val(tabSize) ELSE creationOpts.tabSize)
                 ELSE Some(ValueOf(newConfiguration.indentSize))
         IN  <<"model.updateOptions",
               [insertSpaces |-> insertSpaces, tabSize |-> tabSize,
                indentSize |-> indentSize]>>

\* cursorStyleToString(cursorStyle)
cursorStyleToString(cursorStyle) ==
    CASE cursorStyle = "Line" -> "line"
      [] cursorStyle = "Block" -> "block"
      [] OTHER -> "line"

\* the switch of setConfiguration on newConfiguration.lineNumbers
lineNumbersToString(lineNumbers) ==
    CASE lineNumbers = "On" -> "on"
      [] lineNumbers = "Relative" -> "relative"
      [] OTHER -> "off"

\* the calls of setConfiguration on the widget
widgetConfigurationCalls(newConfiguration) ==
    (IF IsSome(newConfiguration.cursorStyle)
     THEN << <<"updateOptions", "cursorStyle",
               cursorStyleToString(Val(newConfiguration.cursorStyle))>> >>
     ELSE <<>>)
    \o (IF newConfiguration.lineNumbers # None
        THEN << <<"updateOptions", "lineNumbers",
                  lineNumbersToString(Val(newConfiguration.lineNumbers))>> >>
        ELSE <<>>)

\* setConfiguration that does not test this._codeEditor
setConfiguration_noWidgetTest(ce, newConfiguration, creationOpts) ==
    <<setIndentConfiguration(newConfiguration, creationOpts)>>
    \o widgetConfigurationCalls(newConfiguration)

\* setConfiguration(newConfiguration): the calls it makes, in order
setConfiguration(ce, newConfiguration, creationOpts) ==
    <<setIndentConfiguration(newConfiguration, creationOpts)>>
    \o (IF ce = NoEditor THEN <<>> ELSE widgetConfigurationCalls(newConfiguration))

\* the options of the model after the calls: updateOptions overwrites the
\* fields given, detectIndentation sets what it finds in the text
ModelOptionsAfter(cs, mo, detected) ==
    IF cs = <<>> \/ cs[1][1] \notin {"model.updateOptions", "model.detectIndentation"}
    THEN mo
    ELSE IF cs[1][1] = "model.detectIndentation"
    THEN detected
    ELSE [insertSpaces |-> IF IsSome(cs[1][2].insertSpaces)
                           THEN Val(cs[1][2].insertSpaces) ELSE mo.insertSpaces,
          tabSize |-> IF IsSome(cs[1][2].tabSize)
                      THEN Val(cs[1][2].tabSize) ELSE mo.tabSize,
          indentSize |-> IF IsSome(cs[1][2].indentSize)
                         THEN Val(cs[1][2].indentSize) ELSE mo.indentSize]

\* the options of a widget after its updateOptions calls
WidgetAfterConfiguration(cs, ed) ==
    LET style == SelectSeq(cs, LAMBDA c : c[1] = "updateOptions" /\ c[2] = "cursorStyle")
        numbers == SelectSeq(cs, LAMBDA c : c[1] = "updateOptions" /\ c[2] = "lineNumbers")
    IN  [ed EXCEPT
            !.cursorStyle = IF style = <<>> THEN @
                            ELSE IF style[1][3] = "block" THEN "Block" ELSE "Line",
            !.lineNumbers = IF numbers = <<>> THEN @
                            ELSE IF numbers[1][3] = "on" THEN "On"
                            ELSE IF numbers[1][3] = "relative" THEN "Relative"
                            ELSE "Off"]

\* setConfiguration(newConfiguration); a change of the model's options fires
\* its onDidChangeOptions inside the call, a change of the widget's options
\* is reported by the widget's own event later
SetConfiguration(newConfiguration, detected) ==
    /\ Settled
    /\ phase = "live"
    /\ LET cs == setConfiguration(codeEditor, newConfiguration, CreationOptions)
           mo == ModelOptionsAfter(cs, modelOptions, detected)
       IN  /\ calls' = cs
           /\ modelOptions' = mo
           /\ Commit(IF mo # modelOptions /\ modelListeners
                     THEN updatePropertiesNow(Self, NullSource, Model(mo), widgets)
                     ELSE Self)
           /\ widgets' = [w \in Widgets |->
                             IF w = codeEditor
                             THEN WidgetAfterConfiguration(
                                      SelectSeq(cs, LAMBDA c : c[1] = "updateOptions"),
                                      widgets[w])
                             ELSE widgets[w]]
    /\ result' = NoResult
    /\ args' = <<newConfiguration>>
    /\ Did("setConfiguration")
    /\ unreported' = (IF widgets' # widgets
                      THEN unreported \cup {<<codeEditor, "configuration">>}
                      ELSE unreported)
    /\ UNCHANGED <<phase, modelListeners, modelDisposed, versionId, eol, caughtUp,
                   asideVars>>

DecorationKeys == {"key"}

\* IDecorationOptions[]
DecorationRanges == {<<>>, <<[range |-> Selection1111]>>}

\* setDecorations(key, ranges): the calls it makes
setDecorations(ce, key, ranges) ==
    IF ce = NoEditor THEN <<>> ELSE << <<"setDecorations", key, ranges>> >>

SetDecorations(key, ranges) ==
    /\ Settled
    /\ phase = "live"
    /\ calls' = setDecorations(codeEditor, key, ranges)
    /\ Commit(Self)
    /\ result' = NoResult
    /\ args' = <<key, ranges>>
    /\ Did("setDecorations")
    /\ UNCHANGED <<phase, modelListeners, envVars, asideVars>>

\* number[] of setDecorationsFast: four numbers a range, a rest is dropped
FastRanges == {<<>>, <<1, 1, 1, 1>>, <<1, 1, 1, 1, 2, 3>>}

\* the loop of setDecorationsFast: Math.floor(_ranges.length / 4) ranges
fastRanges(numbers) ==
    [i \in 1..(Len(numbers) \div 4) |->
        <<numbers[4 * (i - 1) + 1], numbers[4 * (i - 1) + 2],
          numbers[4 * (i - 1) + 3], numbers[4 * (i - 1) + 4]>>]

\* setDecorationsFast(key, _ranges): the calls it makes
setDecorationsFast(ce, key, numbers) ==
    IF ce = NoEditor THEN <<>>
    ELSE << <<"setDecorationsFast", key, fastRanges(numbers)>> >>

SetDecorationsFast(key, numbers) ==
    /\ Settled
    /\ phase = "live"
    /\ calls' = setDecorationsFast(codeEditor, key, numbers)
    /\ Commit(Self)
    /\ result' = NoResult
    /\ args' = <<key, numbers>>
    /\ Did("setDecorationsFast")
    /\ UNCHANGED <<phase, modelListeners, envVars, asideVars>>

\* TextEditorRevealType, and a value outside it
RevealTypes == {"Default", "InCenter", "InCenterIfOutsideViewport", "AtTop", "Other"}

\* revealRange(range, revealType): the calls it makes
revealRange(ce, range, revealType) ==
    IF ce = NoEditor THEN <<>>
    ELSE CASE revealType = "Default" -> << <<"revealRange", range, "Smooth">> >>
           [] revealType = "InCenter" -> << <<"revealRangeInCenter", range, "Smooth">> >>
           [] revealType = "InCenterIfOutsideViewport" ->
                  << <<"revealRangeInCenterIfOutsideViewport", range, "Smooth">> >>
           [] revealType = "AtTop" -> << <<"revealRangeAtTop", range, "Smooth">> >>
           [] OTHER -> << <<"console.warn", revealType>> >>

\* the widget scrolls by itself later, and tells by onDidScrollChange
RevealRange(range, revealType) ==
    /\ Settled
    /\ phase = "live"
    /\ calls' = revealRange(codeEditor, range, revealType)
    /\ Commit(Self)
    /\ result' = NoResult
    /\ args' = <<range, revealType>>
    /\ Did("revealRange")
    /\ UNCHANGED <<phase, modelListeners, envVars, asideVars>>

\* ------------------------------------------------------- specifications


Next ==
    \/ \E ce \in Widgets \cup {NoEditor} : Construct(ce)
    \/ \E ce \in Widgets \cup {NoEditor} : SetCodeEditor(ce)
    \/ Dispose
    \/ \E w \in Widgets :
         \E sel \in Choices(w, SelectionChoices, widgets[w].selections) :
           \E src \in EventSources : OnDidChangeCursorSelection(w, sel, src)
    \/ \E w \in Widgets :
         \E o \in Choices(w, WidgetOptionChoices,
                          <<widgets[w].cursorStyle, widgets[w].lineNumbers>>) :
           OnDidChangeConfiguration(w, o)
    \/ \E w \in Widgets :
         \E vis \in Choices(w, VisibleChoices, widgets[w].visibleRanges) :
           OnDidLayoutChange(w, vis)
    \/ \E w \in Widgets :
         \E vis \in Choices(w, VisibleChoices, widgets[w].visibleRanges) :
           OnDidScrollChange(w, vis)
    \/ \E w \in MutableWidgets : \E d \in Docs : OnDidChangeModel(w, d)
    \/ \E w \in Widgets : OnDidFocusEditorWidget(w)
    \/ \E w \in Widgets : OnDidBlurEditorWidget(w)
    \/ \E o \in ModelOptionChoices : OnDidChangeOptions(o)
    \/ ContentChange
    \/ \E uri \in {"this", "other"} : OnIsCaughtUpWithContentChanges(uri)
    \/ \E sel \in SelectionChoices \cup {<<>>} : SetSelections(sel)

Spec == Init /\ [][Next]_vars


\* applyEdits on an editor that is constructed, bound, unbound and disposed
\* while the text of the model changes
NextEdits ==
    \/ \E ce \in Widgets \cup {NoEditor} : Construct(ce)
    \/ \E ce \in Widgets \cup {NoEditor} : SetCodeEditor(ce)
    \/ Dispose
    \/ ContentChange
    \/ \E uri \in {"this", "other"} : OnIsCaughtUpWithContentChanges(uri)
    \/ \E v \in 0..MaxVersion : \E edits \in EditBatches : \E opts \in ApplyEditsOptions :
         ApplyEdits(v, edits, opts)

SpecEdits == Init /\ [][NextEdits]_vars

\* insertSnippet on an editor that is bound, unbound and disposed while the
\* clipboard is read, and whose widget moves its cursors and changes model
NextSnippet ==
    \/ \E ce \in Widgets \cup {NoEditor} : Construct(ce)
    \/ \E ce \in Widgets \cup {NoEditor} : SetCodeEditor(ce)
    \/ Dispose
    \/ \E w \in Widgets :
         \E sel \in Choices(w, SnippetSelectionChoices, widgets[w].selections) :
           \E src \in EventSources : OnDidChangeCursorSelection(w, sel, src)
    \/ \E w \in MutableWidgets : \E d \in Docs : OnDidChangeModel(w, d)
    \/ ContentChange
    \/ \E template \in Templates : \E ranges \in SelectionChoices :
         \E opts \in UndoStopOptions : InsertSnippet(template, ranges, opts)
    \/ \E text \in ClipboardTexts : InsertSnippetResume(text)

SpecSnippet == Init /\ [][NextSnippet]_vars

\* the methods that configure, decorate and scroll the widget, on an editor
\* that is bound and unbound
NextConfig ==
    \/ \E ce \in Widgets \cup {NoEditor} : Construct(ce)
    \/ \E ce \in Widgets \cup {NoEditor} : SetCodeEditor(ce)
    \/ \E w \in MutableWidgets :
         \E o \in WidgetOptionChoices : OnDidChangeConfiguration(w, o)
    \/ \E newConfiguration \in ConfigurationUpdates :
         \E detected \in ModelOptionChoices :
           SetConfiguration(newConfiguration, detected)
    \/ \E key \in DecorationKeys : \E ranges \in DecorationRanges :
         SetDecorations(key, ranges)
    \/ \E key \in DecorationKeys : \E numbers \in FastRanges :
         SetDecorationsFast(key, numbers)
    \/ \E range \in RangeSet : \E revealType \in RevealTypes :
         RevealRange(range, revealType)

SpecConfig == Init /\ [][NextConfig]_vars

\* generateDelta applied once to a previous snapshot (or null), a new
\* snapshot and a source
GenerateDelta(old, new, src) ==
    /\ dPc = "idle"
    /\ dPc' = "done"
    /\ dOld' = old
    /\ dNew' = new
    /\ dSrc' = src
    /\ dOut' = generateDelta(new, old, src)
    /\ UNCHANGED <<editorVars, last, calls, result, args, envVars, snippet, pageVars,
                   buttonVars>>

NextDelta ==
    /\ dPc = "idle"
    /\ \E old \in {None} \cup {Some(s) : s \in Snapshots} :
         \E new \in Snapshots :
           \E src \in Sources : GenerateDelta(old, new, src)

SpecDelta == Init /\ [][NextDelta]_vars


\* --------------------------------------------------------- VmSettingsPage
\* The page is the record pg of the wizard model, the dropdowns, the
\* loading flags and the requests in flight. An async populate method is
\* two operators: the part up to `await this.wizard.getRequest(url)`, which
\* runs within its caller, and the continuation that runs with the response.

\* requests the page may have in flight at once
MaxRequests == 3

\* values the user picks in the dropdowns during one visit of the wizard
MaxPicks == 2

\* what the catalog answers: the offers of the publisher, the skus of an
\* offer, the versions of an (offer, sku) pair, the sizes of the region
Offers == <<"sql2019", "sql2017">>

SkusOf(image) == IF image = Some("sql2019") THEN <<"enterprise", "standard">> ELSE <<"web">>

VersionsOf(image, sku) == << <<image, sku, "15.0.2">>, <<image, sku, "15.0.1">> >>

VmSizes == <<"Standard_B1s", "Standard_D2s">>

VmNames == {"vm1"}

\* DropDownComponent.value: the value set, or for a dropdown that is not
\* editable the first of its values; undefined (None) otherwise
valueOf(dd, editable) ==
    IF IsSome(dd.value) THEN dd.value
    ELSE IF ~editable /\ dd.values # <<>> THEN Some(dd.values[1])
    ELSE None

Page == [model |-> wizardModel, dropdowns |-> dropdowns, loading |-> loading,
         requests |-> requests, threw |-> FALSE]

CommitPage(pg) ==
    /\ wizardModel' = pg.model
    /\ dropdowns' = pg.dropdowns
    /\ loading' = pg.loading
    /\ requests' = pg.requests
    /\ pageThrew' = pg.threw

\* everything but the page
notPage == <<editorVars, last, calls, result, args, envVars, deltaVars, snippet, buttonVars>>

\* the requests in flight are a bag: getRequest answers them in any order
Requested(pg, req) == [pg EXCEPT !.requests = @ (+) SetToBag({req})]

\* one request req of the requests in flight is answered
Answered(pg, req) == [pg EXCEPT !.requests = @ (-) SetToBag({req})]

\* populateVmImageVersionDropdown up to its await
populateVmImageVersionDropdown(pg) ==
    Requested([pg EXCEPT !.loading.version = TRUE],
              <<"versions", pg.model.vmImage, pg.model.vmImageSKU>>)

\* populateVmImageVersionDropdown with the response to <<"versions", image, sku>>
populateVmImageVersionDropdown_resume(pg, req) ==
    LET dd == [pg.dropdowns.version EXCEPT !.values = VersionsOf(req[2], req[3])]
    IN  [pg EXCEPT !.dropdowns.version = dd,
                   !.model.vmImageVersion = valueOf(dd, FALSE),
                   !.loading.version = FALSE]

\* populateVmImageSkuDropdown up to its await
populateVmImageSkuDropdown(pg) ==
    Requested([pg EXCEPT !.loading.sku = TRUE], <<"skus", pg.model.vmImage>>)

\* populateVmImageSkuDropdown with the response to <<"skus", image>>
populateVmImageSkuDropdown_resume(pg, req) ==
    LET dd == [pg.dropdowns.sku EXCEPT !.values = SkusOf(req[2])]
        filled == [pg EXCEPT !.dropdowns.sku = dd,
                             !.model.vmImageSKU = valueOf(dd, FALSE)]
    IN  [populateVmImageVersionDropdown(filled) EXCEPT !.loading.sku = FALSE]

\* populateVmImageDropdown up to its await
populateVmImageDropdown(pg) ==
    Requested([pg EXCEPT !.loading.image = TRUE], <<"offers">>)

\* populateVmImageDropdown with the response to <<"offers">>
populateVmImageDropdown_resume(pg, req) ==
    LET dd == [pg.dropdowns.image EXCEPT !.values = Offers]
        filled == [pg EXCEPT !.dropdowns.image = dd,
                             !.model.vmImage = valueOf(dd, FALSE)]
    IN  [populateVmImageSkuDropdown(filled) EXCEPT !.loading.image = FALSE]

\* populateVmSizeDropdown up to its await
populateVmSizeDropdown(pg) ==
    Requested([pg EXCEPT !.loading.size = TRUE], <<"vmSizes">>)

\* populateVmSizeDropdown with the response to <<"vmSizes">>
populateVmSizeDropdown_resume(pg, req) ==
    LET dd == [value |-> Some(VmSizes[1]), values |-> VmSizes]
    IN  [pg EXCEPT !.dropdowns.size = dd,
                   !.model.vmSize = valueOf(dd, TRUE),
                   !.loading.size = FALSE]

\* the onValueChanged listener of the image dropdown
onImageValueChanged(pg) ==
    [pg EXCEPT !.model.vmImage = valueOf(pg.dropdowns.image, FALSE)]

\* the onValueChanged listener of the sku dropdown
onSkuValueChanged(pg) ==
    IF ~IsSome(valueOf(pg.dropdowns.image, FALSE))
    THEN [pg EXCEPT !.threw = TRUE]
    ELSE populateVmImageVersionDropdown(
             [pg EXCEPT !.model.vmImageSKU = valueOf(pg.dropdowns.image, FALSE)])

\* the onValueChanged listener of the version dropdown
onVersionValueChanged(pg) ==
    [pg EXCEPT !.model.vmImageVersion = valueOf(pg.dropdowns.version, FALSE)]

\* the onValueChanged listener of the size dropdown
onSizeValueChanged(pg) ==
    IF ~IsSome(valueOf(pg.dropdowns.image, FALSE))
    THEN [pg EXCEPT !.threw = TRUE]
    ELSE [pg EXCEPT !.model.vmSize = valueOf(pg.dropdowns.image, FALSE)]

\* onEnter(): the two populate methods run up to their awaits
onEnter(pg) == populateVmSizeDropdown(populateVmImageDropdown(pg))

OnEnter ==
    /\ BagCardinality(requests) + 2 <= MaxRequests
    /\ CommitPage(onEnter(Page))
    /\ pageLast' = "onEnter"
    /\ UNCHANGED picks
    /\ UNCHANGED notPage

\* the user types the name of the machine
OnVmNameChanged(value) ==
    /\ wizardModel.vmName # Some(value)
    /\ CommitPage([Page EXCEPT !.model.vmName = Some(value)])
    /\ pageLast' = "vmName.onTextChanged"
    /\ UNCHANGED picks
    /\ UNCHANGED notPage

\* the user picks v in dropdown d: the component takes the value and fires
\* onValueChanged
Picked(pg, d, v) == [pg EXCEPT !.dropdowns[d].value = Some(v)]

CanPick(d, v, editable) ==
    /\ picks < MaxPicks
    /\ \E i \in DOMAIN dropdowns[d].values : dropdowns[d].values[i] = v
    /\ valueOf(dropdowns[d], editable) # Some(v)

OnImageValueChanged(v) ==
    /\ CanPick("image", v, FALSE)
    /\ CommitPage(onImageValueChanged(Picked(Page, "image", v)))
    /\ pageLast' = "image.onValueChanged"
    /\ picks' = picks + 1
    /\ UNCHANGED notPage

OnSkuValueChanged(v) ==
    /\ CanPick("sku", v, FALSE)
    /\ BagCardinality(requests) < MaxRequests
    /\ CommitPage(onSkuValueChanged(Picked(Page, "sku", v)))
    /\ pageLast' = "sku.onValueChanged"
    /\ picks' = picks + 1
    /\ UNCHANGED notPage

OnVersionValueChanged(v) ==
    /\ CanPick("version", v, FALSE)
    /\ CommitPage(onVersionValueChanged(Picked(Page, "version", v)))
    /\ pageLast' = "version.onValueChanged"
    /\ picks' = picks + 1
    /\ UNCHANGED notPage

OnSizeValueChanged(v) ==
    /\ CanPick("size", v, TRUE)
    /\ CommitPage(onSizeValueChanged(Picked(Page, "size", v)))
    /\ pageLast' = "size.onValueChanged"
    /\ picks' = picks + 1
    /\ UNCHANGED notPage

\* getRequest answers the request req: the continuation of the
\* populate method that made it runs
OffersResponse(req) ==
    /\ BagIn(req, requests)
    /\ req[1] = "offers"
    /\ CommitPage(populateVmImageDropdown_resume(Answered(Page, req), req))
    /\ pageLast' = "populateVmImageDropdown"
    /\ UNCHANGED picks
    /\ UNCHANGED notPage

SkusResponse(req) ==
    /\ BagIn(req, requests)
    /\ req[1] = "skus"
    /\ CommitPage(populateVmImageSkuDropdown_resume(Answered(Page, req), req))
    /\ pageLast' = "populateVmImageSkuDropdown"
    /\ UNCHANGED picks
    /\ UNCHANGED notPage

VersionsResponse(req) ==
    /\ BagIn(req, requests)
    /\ req[1] = "versions"
    /\ CommitPage(populateVmImageVersionDropdown_resume(Answered(Page, req), req))
    /\ pageLast' = "populateVmImageVersionDropdown"
    /\ UNCHANGED picks
    /\ UNCHANGED notPage

VmSizesResponse(req) ==
    /\ BagIn(req, requests)
    /\ req[1] = "vmSizes"
    /\ CommitPage(populateVmSizeDropdown_resume(Answered(Page, req), req))
    /\ pageLast' = "populateVmSizeDropdown"
    /\ UNCHANGED picks
    /\ UNCHANGED notPage

NextPage ==
    \/ OnEnter
    \/ \E value \in VmNames : OnVmNameChanged(value)
    \/ \E i \in 1..2 : OnImageValueChanged(Offers[i])
    \/ \E v \in {"enterprise", "standard", "web"} : OnSkuValueChanged(v)
    \/ \E v \in {dropdowns.version.values[i] : i \in DOMAIN dropdowns.version.values} :
         OnVersionValueChanged(v)
    \/ \E i \in 1..2 : OnSizeValueChanged(VmSizes[i])
    \/ \E req \in BagToSet(requests) : OffersResponse(req)
    \/ \E req \in BagToSet(requests) : SkusResponse(req)
    \/ \E req \in BagToSet(requests) : VersionsResponse(req)
    \/ \E req \in BagToSet(requests) : VmSizesResponse(req)

SpecPage == Init /\ [][NextPage]_vars


\* ---------------------------------------------------- Button, ButtonGroup
\* A Button is the state of its element that the class reads and writes:
\* the class 'disabled', aria-disabled and tabIndex. The buttons of a group
\* are numbered from 0 as in the code; buttons[i + 1] is this._buttons[i].

\* the largest `count` a ButtonGroup is constructed with
MaxCount == 3

Keys == {"Enter", "Space", "Escape", "LeftArrow", "RightArrow", "Tab"}

\* new Button(container, options): lines 74-77
newButton == [disabled |-> FALSE, ariaDisabled |-> None, tabIndex |-> Some(0)]

\* get enabled()
enabled(b) == ~b.disabled

\* set enabled(value)
setEnabled(b, value) ==
    IF value
    THEN [b EXCEPT !.disabled = FALSE, !.ariaDisabled = Some("false"), !.tabIndex = Some(0)]
    ELSE [b EXCEPT !.disabled = TRUE, !.ariaDisabled = Some("true"), !.tabIndex = None]

\* DOM.removeTabIndexAndUpdateFocus(element): the focus leaves the element
\* for a parent that can take it; no button is a parent of another
removeTabIndexAndUpdateFocus(f, i) == IF f = Some(i) THEN None ELSE f

\* element.blur()
blur(f, i) == IF f = Some(i) THEN None ELSE f

\* Button.focus(): element.focus() moves the focus to an element that has a
\* tabIndex and does nothing on an anchor without one
focus(bs, f, i) == IF IsSome(bs[i + 1].tabIndex) THEN Some(i) ELSE f

\* the CLICK and Tap listener without the `if (!this.enabled)` test
onClick_noEnabledTest(b, i) == [clicked |-> <<i>>, stopped |-> FALSE]

\* the CLICK and Tap listener of button i: what it fires and whether it
\* stops the event
onClick(b, i) ==
    IF ~enabled(b)
    THEN [clicked |-> <<>>, stopped |-> TRUE]
    ELSE [clicked |-> <<i>>, stopped |-> FALSE]

\* the KEY_DOWN listener of button i
onKeyDown(b, f, i, key) ==
    IF enabled(b) /\ key \in {"Enter", "Space"}
    THEN [clicked |-> <<i>>, stopped |-> TRUE, focused |-> f]
    ELSE IF key = "Escape"
    THEN [clicked |-> <<>>, stopped |-> TRUE, focused |-> blur(f, i)]
    ELSE [clicked |-> <<>>, stopped |-> FALSE, focused |-> f]

\* the KEY_DOWN listener of ButtonGroup.create that stays on the first and
\* on the last button
onGroupKeyDown_noWrap(bs, f, index, key) ==
    LET length == Len(bs)
        buttonIndexToFocus ==
            IF key = "LeftArrow"
            THEN Some(IF index > 0 THEN index - 1 ELSE index)
            ELSE IF key = "RightArrow"
            THEN Some(IF index = length - 1 THEN index ELSE index + 1)
            ELSE None
    IN  IF IsSome(buttonIndexToFocus)
        THEN [focused |-> focus(bs, f, Val(buttonIndexToFocus)), stopped |-> TRUE]
        ELSE [focused |-> f, stopped |-> FALSE]

\* the KEY_DOWN listener ButtonGroup.create adds to button `index` when
\* count > 1
onGroupKeyDown(bs, f, index, key) ==
    LET length == Len(bs)
        buttonIndexToFocus ==
            IF key = "LeftArrow"
            THEN Some(IF index > 0 THEN index - 1 ELSE length - 1)
            ELSE IF key = "RightArrow"
            THEN Some(IF index = length - 1 THEN 0 ELSE index + 1)
            ELSE None
    IN  IF IsSome(buttonIndexToFocus)
        THEN [focused |-> focus(bs, f, Val(buttonIndexToFocus)), stopped |-> TRUE]
        ELSE [focused |-> f, stopped |-> FALSE]

Indices == {i \in 0..(MaxCount - 1) : i < Len(buttons)}

notButtons == <<editorVars, last, calls, result, args, envVars, deltaVars, snippet, pageVars>>

DidButton(op, i, key, value) ==
    buttonLast' = [op |-> op, index |-> i, key |-> key, value |-> value]

\* new ButtonGroup(container, count, options)
NewButtonGroup(count) ==
    /\ buttons = <<>>
    /\ buttons' = [i \in 1..count |-> newButton]
    /\ assigned' = [i \in 1..count |-> None]
    /\ focused' = None
    /\ clicked' = <<>>
    /\ stopped' = FALSE
    /\ DidButton("ButtonGroup", 0, "", FALSE)
    /\ UNCHANGED notButtons

\* this.buttons[i].enabled = value
SetEnabled(i, value) ==
    /\ i \in Indices
    /\ buttons' = [buttons EXCEPT ![i + 1] = setEnabled(@, value)]
    /\ focused' = (IF value THEN focused ELSE removeTabIndexAndUpdateFocus(focused, i))
    /\ assigned' = [assigned EXCEPT ![i + 1] = Some(value)]
    /\ clicked' = <<>>
    /\ stopped' = FALSE
    /\ DidButton("enabled", i, "", value)
    /\ UNCHANGED notButtons

\* this.buttons[i].focus()
Focus(i) ==
    /\ i \in Indices
    /\ focused' = focus(buttons, focused, i)
    /\ clicked' = <<>>
    /\ stopped' = FALSE
    /\ DidButton("focus", i, "", FALSE)
    /\ UNCHANGED <<buttons, assigned, notButtons>>

\* a click or a tap of button i
Click(i, eventType) ==
    /\ i \in Indices
    /\ LET r == onClick(buttons[i + 1], i)
       IN  /\ clicked' = r.clicked
           /\ stopped' = r.stopped
    /\ DidButton(eventType, i, "", FALSE)
    /\ UNCHANGED <<buttons, focused, assigned, notButtons>>

\* a key pressed on button i: the listener of the Button runs, then the
\* listener of the group if the group has one
KeyDown(i, key) ==
    /\ i \in Indices
    /\ LET own == onKeyDown(buttons[i + 1], focused, i, key)
           group == IF Len(buttons) > 1
                    THEN onGroupKeyDown(buttons, own.focused, i, key)
                    ELSE [focused |-> own.focused, stopped |-> FALSE]
       IN  /\ clicked' = own.clicked
           /\ stopped' = (own.stopped \/ group.stopped)
           /\ focused' = group.focused
    /\ DidButton("keydown", i, key, FALSE)
    /\ UNCHANGED <<buttons, assigned, notButtons>>

NextButtons ==
    \/ \E count \in 1..MaxCount : NewButtonGroup(count)
    \/ \E i \in 0..(MaxCount - 1) : \E value \in BOOLEAN : SetEnabled(i, value)
    \/ \E i \in 0..(MaxCount - 1) : Focus(i)
    \/ \E i \in 0..(MaxCount - 1) : \E eventType \in {"click", "tap"} : Click(i, eventType)
    \/ \E i \in 0..(MaxCount - 1) : \E key \in Keys : KeyDown(i, key)

SpecButtons == Init /\ [][NextButtons]_vars


\* ------------------------------------------------------------ the claims

WidgetEventOps ==
    {"onDidChangeCursorSelection", "onDidChangeConfiguration",
     "onDidLayoutChange", "onDidScrollChange"}

\* the source a widget event of the last step carries
EventSourceOf(op) == IF op = "onDidChangeCursorSelection" THEN "keyboard" ELSE NullSource

\* C1: a widget event (selection, configuration, layout, scroll) handled by
\* the bound editor while the document is not caught up fires no delta and
\* leaves the snapshot as it was; the source of the event is latched, and
\* nothing else of the editor changes.
C1_EventDeferredWhileBehind ==
    [][(last' \in WidgetEventOps /\ ~caughtUp)
         => /\ fired' = <<>>
            /\ properties' = properties
            /\ nextSelectionChangeSource' = EventSourceOf(last')
            /\ codeEditor' = codeEditor
            /\ codeEditor # NoEditor]_vars

\* a selection change of the bound widget is latched with its source while
\* the widget already shows a selection the snapshot does not have
C1_Witness ==
    /\ last = "onDidChangeCursorSelection"
    /\ ~caughtUp
    /\ codeEditor = "w1"
    /\ nextSelectionChangeSource = "keyboard"
    /\ fired = <<>>
    /\ Val(properties).selections # widgets["w1"].selections

DeltaIsEmpty(d) ==
    ~IsSome(d.selections) /\ ~IsSome(d.options) /\ ~IsSome(d.visibleRanges)

\* C2: the caught-up notification of this document, handled while a widget
\* is bound, replaces the snapshot by what the widget and the model show
\* now, fires at most one delta, whose selections sub-record (if any) carries
\* the latched source, and leaves the latch empty.
C2_CaughtUpConsumesLatch ==
    [][(last' = "onIsCaughtUpWithContentChanges")
         => /\ codeEditor # NoEditor
            /\ LET w == widgets[codeEditor]
                   p == Val(properties')
               IN  /\ w.doc # "none" =>
                         /\ p.selections = w.selections
                         /\ p.visibleRanges = w.visibleRanges
                   /\ p.options.cursorStyle = w.cursorStyle
                   /\ p.options.lineNumbers = w.lineNumbers
                   /\ p.options.tabSize = modelOptions.tabSize
                   /\ p.options.indentSize = modelOptions.indentSize
                   /\ p.options.insertSpaces = modelOptions.insertSpaces
            /\ Len(fired') <= 1
            /\ (fired' = <<>>) <=> (properties' = properties)
            /\ \A i \in DOMAIN fired' :
                   IsSome(fired'[i].selections) =>
                       /\ Val(fired'[i].selections).source
                            = withNullAsUndefined(nextSelectionChangeSource)
                       /\ Val(fired'[i].selections).selections
                            = Val(properties').selections
            /\ nextSelectionChangeSource' = NullSource]_vars

\* the notification delivers the deferred selection with the latched source
C2_Witness ==
    /\ last = "onIsCaughtUpWithContentChanges"
    /\ codeEditor = "w1"
    /\ Len(fired) = 1
    /\ IsSome(fired[1].selections)
    /\ Val(fired[1].selections).source = "keyboard"
    /\ nextSelectionChangeSource = NullSource

\* C3: no delta with a selections or a visibleRanges sub-record is fired
\* while the document is not caught up (the deltas the constructor fires,
\* which reach no subscriber, left aside).
C3_NoSelectionsDeltaWhileBehind ==
    (last # "constructor") =>
        \A i \in DOMAIN fired :
            (IsSome(fired[i].selections) \/ IsSome(fired[i].visibleRanges)) => caughtUp

\* C4: every delta fired has a sub-record, and a step that leaves the
\* snapshot as it was fires nothing.
C4_NoEmptyDelta ==
    [][/\ \A i \in DOMAIN fired' : ~DeltaIsEmpty(fired'[i])
       /\ (IsSome(properties) /\ properties' = properties) => fired' = <<>>]_vars

\* a recomputation (on a caught-up notification) finds nothing changed and
\* fires nothing
C4_Witness ==
    /\ last = "onIsCaughtUpWithContentChanges"
    /\ codeEditor # NoEditor
    /\ fired = <<>>


\* C5: for a previous snapshot A and a new snapshot B, generateDelta returns
\* null exactly when A and B have the same selections, the same options and
\* the same visible ranges.
C5_NoDeltaIffEqual ==
    (dPc = "done" /\ IsSome(dOld)) =>
        (~IsSome(dOut) <=>
            /\ Val(dOld).selections = dNew.selections
            /\ Val(dOld).options = dNew.options
            /\ Val(dOld).visibleRanges = dNew.visibleRanges)

\* two snapshots of two selections each, equal in every field: no delta
C5_Witness ==
    /\ dPc = "done"
    /\ IsSome(dOld)
    /\ Len(dNew.selections) = 2
    /\ Val(dOld) = dNew
    /\ ~IsSome(dOut)

\* the snapshot a consumer holding A has after overwriting the fields that
\* are present in the delta (nothing when the delta is null)
ApplyDelta(A, delta) ==
    IF ~IsSome(delta) THEN A
    ELSE LET d == Val(delta)
         IN  [selections |-> IF IsSome(d.selections)
                             THEN Val(d.selections).selections ELSE A.selections,
              options |-> IF IsSome(d.options) THEN Val(d.options) ELSE A.options,
              visibleRanges |-> IF IsSome(d.visibleRanges)
                                THEN Val(d.visibleRanges) ELSE A.visibleRanges]

\* C6: overwriting in A the fields present in generateDelta(A, B) gives B.
C6_ApplyDeltaGivesNew ==
    (dPc = "done" /\ IsSome(dOld)) => ApplyDelta(Val(dOld), dOut) = dNew

\* a delta that carries the options alone, applied to a snapshot that
\* differs from B in its indentSize only
C6_Witness ==
    /\ dPc = "done"
    /\ IsSome(dOld)
    /\ IsSome(dOut)
    /\ Val(dOld).options.indentSize # dNew.options.indentSize
    /\ Val(dOld).selections = dNew.selections
    /\ ~IsSome(Val(dOut).selections)
    /\ IsSome(Val(dOut).options)

\* whether the delta returned has the sub-record
HasSelections == IsSome(dOut) /\ IsSome(Val(dOut).selections)

HasOptions == IsSome(dOut) /\ IsSome(Val(dOut).options)

HasVisibleRanges == IsSome(dOut) /\ IsSome(Val(dOut).visibleRanges)

\* C7: for a previous snapshot that is not null, each sub-record of the
\* delta is present exactly when its own field differs; the source is a
\* field of the selections sub-record only, and is the source given (null
\* read as undefined).
C7_SubRecordIffFieldDiffers ==
    (dPc = "done" /\ IsSome(dOld)) =>
        /\ HasSelections <=> (Val(dOld).selections # dNew.selections)
        /\ HasOptions <=> (Val(dOld).options # dNew.options)
        /\ HasVisibleRanges <=> (Val(dOld).visibleRanges # dNew.visibleRanges)
        /\ IsSome(dOut) => DOMAIN Val(dOut) = {"selections", "options", "visibleRanges"}
        /\ HasSelections =>
               Val(Val(dOut).selections) =
                   [selections |-> dNew.selections, source |-> withNullAsUndefined(dSrc)]
        /\ HasOptions => Val(Val(dOut).options) = dNew.options
        /\ HasVisibleRanges => Val(Val(dOut).visibleRanges) = dNew.visibleRanges

\* selections alone change from (1,1,1,1) to (2,3,2,3) with source keyboard:
\* the delta has the selections and the source, and neither options nor
\* visible ranges
C7_Witness ==
    /\ dPc = "done"
    /\ IsSome(dOld)
    /\ Val(dOld).selections = <<Selection1111>>
    /\ dNew.selections = <<Selection2323>>
    /\ dSrc = "keyboard"
    /\ HasSelections
    /\ Val(Val(dOut).selections).source = "keyboard"
    /\ ~HasOptions
    /\ ~HasVisibleRanges

\* C8: applyEdits with a version other than the model's returns false and
\* changes nothing: no pushEOL, no undo stop, no executeEdits, bound or not.
C8_StaleVersionRejected ==
    [][(last' = "applyEdits" /\ args'[1] # versionId)
           => /\ result' = Some(FALSE)
              /\ calls' = <<>>
              /\ eol' = eol
              /\ versionId' = versionId
              /\ widgets' = widgets]_vars

\* a stale call on a bound editor that asks for another end of line
C8_Witness ==
    /\ last = "applyEdits"
    /\ codeEditor # NoEditor
    /\ args[1] # versionId
    /\ args[3].setEndOfLine \notin {Undefined, eol}
    /\ args[3].undoStopBefore
    /\ result = Some(FALSE)
    /\ calls = <<>>

\* C9: applyEdits on an editor with no widget returns false and leaves the
\* model alone, its end of line included, even with the right version.
C9_UnboundRejected ==
    [][(last' = "applyEdits" /\ codeEditor = NoEditor)
           => /\ result' = Some(FALSE)
              /\ calls' = <<>>
              /\ eol' = eol
              /\ versionId' = versionId]_vars

\* a call with the right version and another end of line, on no widget
C9_Witness ==
    /\ last = "applyEdits"
    /\ codeEditor = NoEditor
    /\ args[1] = versionId
    /\ args[3].setEndOfLine \notin {Undefined, eol}
    /\ result = Some(FALSE)

\* C10: applyEdits returns true only if the widget's executeEdits reported
\* that it applied the edits.
C10_TrueOnlyIfWidgetAccepted ==
    (last = "applyEdits" /\ result = Some(TRUE)) =>
        /\ \E i \in DOMAIN calls : calls[i][1] = "executeEdits"
        /\ \A i \in DOMAIN calls : calls[i][1] = "executeEdits" => calls[i][3]

\* C11: when the clipboard read of insertSnippet completes on the widget it
\* began on, and the selections of that widget, or the version of its model,
\* are not what they were when the read began, insertSnippet returns false,
\* calls nothing on the widget and changes neither its cursors nor the text.
C11_SelectionChangeAborts ==
    [][(/\ last' = "insertSnippet.resume"
        /\ codeEditor # NoEditor
        /\ codeEditor = Val(snippet).widget
        /\ \/ widgets[codeEditor].selections # Val(snippet).selections
           \/ versionOf(widgets[codeEditor], versionId) # Val(snippet).versionId)
           => /\ result' = Some(FALSE)
              /\ calls' = <<>>
              /\ widgets' = widgets
              /\ versionId' = versionId]_vars

\* C12: insertSnippet on an editor with no widget returns false at once: the
\* clipboard is not read, no call is awaited, and no widget and no text
\* changes.
C12_UnboundSnippetRejected ==
    [][(last' = "insertSnippet" /\ codeEditor = NoEditor)
           => /\ result' = Some(FALSE)
              /\ calls' = <<>>
              /\ snippet' = None
              /\ widgets' = widgets
              /\ versionId' = versionId]_vars

\* a template that names the clipboard, given to an editor with no widget
C12_Witness ==
    /\ last = "insertSnippet"
    /\ codeEditor = NoEditor
    /\ guessNeedsClipboard(args[1])
    /\ result = Some(FALSE)
    /\ calls = <<>>
    /\ snippet = None

\* C13: when the clipboard read of insertSnippet completes on an editor that
\* has no widget any more (detached, or disposed), insertSnippet returns
\* false, calls nothing and throws nothing.
C13_DetachedSnippetReturnsFalse ==
    [][(last' = "insertSnippet.resume" /\ codeEditor = NoEditor)
           => /\ result' = Some(FALSE)
              /\ calls' = <<>>]_vars

\* whether snapshot p is what widget ed and the model options mo show now (a
\* widget without a model has no selections to show)
Shows(p, ed, mo) ==
    /\ ed.doc # "none" => p.selections = ed.selections
    /\ p.visibleRanges = (IF ed.doc = "none" THEN <<>> ELSE ed.visibleRanges)
    /\ p.options = [insertSpaces |-> mo.insertSpaces, tabSize |-> mo.tabSize,
                    indentSize |-> mo.indentSize, cursorStyle |-> ed.cursorStyle,
                    lineNumbers |-> ed.lineNumbers]

C15_UnboundHasNoVisibleRanges ==
    (phase # "new" /\ codeEditor = NoEditor) => Val(properties).visibleRanges = <<>>

\* C16: setSelections(R) on an editor with no widget makes the snapshot R
\* with the options and visible ranges it had, calls no widget, and fires,
\* when R is not what the snapshot had, one delta that has the selections R
\* with no source and nothing else.
C16_UnboundSetSelections ==
    [][(last' = "setSelections" /\ codeEditor = NoEditor)
           => /\ properties' = Some(Properties(args'[1], Val(properties).options,
                                               Val(properties).visibleRanges))
              /\ calls' = <<>>
              /\ widgets' = widgets
              /\ codeEditor' = NoEditor
              /\ fired' = (IF args'[1] = Val(properties).selections THEN <<>>
                           ELSE << [selections |->
                                        Some([selections |-> args'[1],
                                              source |-> UndefinedSource]),
                                    options |-> None,
                                    visibleRanges |-> None] >>)]_vars

\* an unbound editor that kept visible ranges is given a new selection
C16_Witness ==
    /\ last = "setSelections"
    /\ codeEditor = NoEditor
    /\ args = << <<Selection2323>> >>
    /\ Len(fired) = 1
    /\ Val(properties).selections = <<Selection2323>>
    /\ Val(properties).visibleRanges # <<>>

\* C17: setSelections on an editor with a widget calls setSelections on the
\* widget and nothing else: the snapshot, the latch and the binding stay and
\* no delta is fired by the call.
C17_BoundSetSelectionsForwards ==
    [][(last' = "setSelections" /\ codeEditor # NoEditor)
           => /\ calls' = << <<"setSelections", args'[1]>> >>
              /\ properties' = properties
              /\ fired' = <<>>
              /\ nextSelectionChangeSource' = nextSelectionChangeSource
              /\ codeEditor' = codeEditor
              /\ codeEditorListeners' = codeEditorListeners]_vars

\* the widget already has the new selection, the snapshot has not
C17_Witness ==
    /\ last = "setSelections"
    /\ codeEditor = "w1"
    /\ caughtUp
    /\ calls # <<>>
    /\ widgets["w1"].selections = args[1]
    /\ Val(properties).selections # args[1]
    /\ fired = <<>>

\* C20: once constructed, the editor has a snapshot, and the snapshot has at
\* least one selection.
C20_SelectionsNonEmpty ==
    phase # "new" => (IsSome(properties) /\ Len(Val(properties).selections) >= 1)

\* the listeners a widget event may run
WidgetListenerOps ==
    WidgetEventOps \cup {"onDidChangeModel", "onDidFocusEditorWidget",
                         "onDidBlurEditorWidget"}

CaughtUpOps ==
    {"onIsCaughtUpWithContentChanges", "onIsCaughtUpWithContentChanges(other)"}

\* C19: the model-changed event of the bound widget leaves the editor
\* unbound, with its snapshot, and fires nothing. An event (selection,
\* configuration, layout, scroll, model, focus, blur) of a widget that is not
\* the bound one changes nothing of the editor, fires nothing and does not
\* reach the focus tracker; no caught-up listener runs while no widget is
\* bound; and a disposed editor changes on no event at all, an options
\* change of the model included.
C19_StaleEventsIgnored ==
    [][/\ (last' = "onDidChangeModel")
            => /\ args'[1] = codeEditor
               /\ codeEditor' = NoEditor
               /\ codeEditorListeners' = {}
               /\ properties' = properties
               /\ fired' = <<>>
       /\ (last' \in WidgetListenerOps \cup {"none"} /\ args' # <<>>
             /\ args'[1] # codeEditor)
            => /\ last' = "none"
               /\ properties' = properties
               /\ fired' = <<>>
               /\ calls' = <<>>
               /\ codeEditor' = codeEditor
               /\ nextSelectionChangeSource' = nextSelectionChangeSource
       /\ (last' \in CaughtUpOps) => codeEditor # NoEditor
       /\ (phase = "disposed")
            => /\ last' = "none"
               /\ properties' = properties
               /\ fired' = <<>>
               /\ calls' = <<>>
               /\ codeEditor' = NoEditor]_vars

\* w1, detached by its model-changed event and back on this model, moves its
\* cursor: the editor stays unbound and keeps the snapshot of the binding
C19_Witness ==
    /\ last = "none"
    /\ args = <<"w1">>
    /\ phase = "live"
    /\ codeEditor = NoEditor
    /\ caughtUp
    /\ widgets["w1"].doc = "this"
    /\ Val(properties).visibleRanges # <<>>
    /\ Val(properties).selections # widgets["w1"].selections

WidgetMethodOps == {"setConfiguration", "setDecorations", "setDecorationsFast", "revealRange"}

\* C18 as stated: setConfiguration, setDecorations, setDecorationsFast and
\* revealRange on an editor with no widget change neither the options of the
\* model nor a widget nor the snapshot, fire nothing and return normally.
C18_UnboundMethodsAreNoOps ==
    [][(last' \in WidgetMethodOps /\ codeEditor = NoEditor)
           => /\ modelOptions' = modelOptions
              /\ widgets' = widgets
              /\ properties' = properties
              /\ fired' = <<>>
              /\ result' = NoResult]_vars

\* C18 amended: on an editor with no widget, setDecorations,
\* setDecorationsFast and revealRange call nothing and change nothing;
\* setConfiguration calls no widget and changes none, but makes its one call
\* on the model (updateOptions, or detectIndentation), and when the options
\* of the model change by it the snapshot takes them and one delta with the
\* options alone is fired.
C18_UnboundConfigurationReachesModel ==
    [][(last' \in WidgetMethodOps /\ codeEditor = NoEditor)
           => /\ widgets' = widgets
              /\ result' = NoResult
              /\ codeEditor' = NoEditor
              /\ (last' # "setConfiguration")
                    => /\ calls' = <<>>
                       /\ modelOptions' = modelOptions
                       /\ properties' = properties
                       /\ fired' = <<>>
              /\ (last' = "setConfiguration")
                    => /\ Len(calls') = 1
                       /\ calls'[1][1] \in {"model.updateOptions", "model.detectIndentation"}
                       /\ (modelOptions' = modelOptions)
                             => (properties' = properties /\ fired' = <<>>)
                       /\ (modelOptions' # modelOptions)
                             => /\ Val(properties') =
                                      [Val(properties) EXCEPT
                                          !.options.insertSpaces = modelOptions'.insertSpaces,
                                          !.options.tabSize = modelOptions'.tabSize,
                                          !.options.indentSize = modelOptions'.indentSize,
                                          !.visibleRanges = <<>>]
                                /\ Len(fired') = 1
                                /\ IsSome(fired'[1].options)
                                /\ ~IsSome(fired'[1].selections)]_vars

\* setConfiguration with a tab size and a cursor style on an editor with no
\* widget: the model and the snapshot take the tab size, no widget is called
C18_Witness ==
    /\ last = "setConfiguration"
    /\ codeEditor = NoEditor
    /\ args[1].tabSize = Given(2)
    /\ IsSome(args[1].cursorStyle)
    /\ Len(calls) = 1
    /\ Len(fired) = 1
    /\ Val(properties).options.tabSize = 2
    /\ modelOptions.tabSize = 2

\* C21: whenever a widget is bound, the document is caught up and the widget
\* has fired the event of every change made to it, the snapshot has the
\* selections, the visible ranges and the options that the widget and the
\* model show.
C21_BoundSnapshotShowsWidget ==
    (codeEditor # NoEditor /\ caughtUp /\ unreported = {})
        => Shows(Val(properties), widgets[codeEditor], modelOptions)

\* the caught-up notification has just delivered a change of w1 that was
\* deferred
C21_Witness ==
    /\ last = "onIsCaughtUpWithContentChanges"
    /\ codeEditor = "w1"
    /\ caughtUp
    /\ unreported = {}
    /\ fired # <<>>
    /\ widgets["w1"].selections = <<Selection2323>>
    /\ Val(properties).selections = <<Selection2323>>
    /\ Val(properties).visibleRanges = widgets["w1"].visibleRanges

\* C22: every widget event deferred while the document is behind overwrites
\* the latch with its own source; the caught-up notification fires at most
\* one delta and gives its selections the source latched last. So after a
\* selection change by keyboard and then a scroll, layout or configuration
\* event, all deferred, the notification fires one delta whose selections
\* have no source.
C22_LastDeferredSourceWins ==
    [][/\ (last' \in WidgetEventOps /\ ~caughtUp)
            => /\ nextSelectionChangeSource' = EventSourceOf(last')
               /\ fired' = <<>>
       /\ (/\ last \in WidgetEventOps \ {"onDidChangeCursorSelection"}
           /\ ~caughtUp
           /\ unreported = {}
           /\ last' = "onIsCaughtUpWithContentChanges"
           /\ widgets[codeEditor].doc # "none"
           /\ Val(properties).selections # widgets[codeEditor].selections)
            => /\ Len(fired') = 1
               /\ IsSome(fired'[1].selections)
               /\ Val(fired'[1].selections).source = UndefinedSource
               /\ Val(fired'[1].selections).selections = widgets[codeEditor].selections
               /\ nextSelectionChangeSource' = NullSource]_vars

\* the notification delivers a selection that only a keyboard event can have
\* made, and the delta has no source: a later deferred event replaced it
C22_Witness ==
    /\ last = "onIsCaughtUpWithContentChanges"
    /\ codeEditor = "w1"
    /\ unreported = {}
    /\ Len(fired) = 1
    /\ IsSome(fired[1].selections)
    /\ Val(fired[1].selections).source = UndefinedSource
    /\ IsSome(fired[1].visibleRanges)

\* C23: the caught-up notification of another document changes nothing of
\* the editor: no recomputation, no delta, and the latch keeps the source
\* deferred for the notification of this document.
C23_OtherDocumentIgnored ==
    [][(last' = "onIsCaughtUpWithContentChanges(other)")
           => /\ properties' = properties
              /\ fired' = <<>>
              /\ nextSelectionChangeSource' = nextSelectionChangeSource
              /\ codeEditor' = codeEditor
              /\ codeEditorListeners' = codeEditorListeners
              /\ caughtUp' = caughtUp]_vars

\* a keyboard selection is deferred and stays deferred over the notification
\* of the other document
C23_Witness ==
    /\ last = "onIsCaughtUpWithContentChanges(other)"
    /\ codeEditor = "w1"
    /\ ~caughtUp
    /\ nextSelectionChangeSource = "keyboard"
    /\ fired = <<>>
    /\ Val(properties).selections # widgets["w1"].selections

\* the calls on the widget, an executeEdits without what the widget answered
WidgetCallsOfEdits(cs) ==
    LET onWidget == SelectSeq(cs, LAMBDA c : c[1] # "pushEOL")
    IN  [i \in 1..Len(onWidget) |->
            IF onWidget[i][1] = "executeEdits"
            THEN <<"executeEdits", onWidget[i][2]>> ELSE onWidget[i]]

\* C24: an applyEdits that returns true has called the widget with, in this
\* order, pushUndoStop if and only if undoStopBefore, one executeEdits with
\* every edit given, in the order given, and pushUndoStop if and only if
\* undoStopAfter.
C24_OneBatchBetweenUndoStops ==
    (last = "applyEdits" /\ result = Some(TRUE)) =>
        LET edits == args[2]
            opts == args[3]
            batch == [i \in 1..Len(edits) |->
                         [range |-> edits[i].range, text |-> edits[i].text,
                          forceMoveMarkers |-> edits[i].forceMoveMarkers]]
        IN  WidgetCallsOfEdits(calls) =
                (IF opts.undoStopBefore THEN << <<"pushUndoStop">> >> ELSE <<>>)
                \o << <<"executeEdits", batch>> >>
                \o (IF opts.undoStopAfter THEN << <<"pushUndoStop">> >> ELSE <<>>)

\* two edits with an undo stop before and none after
C24_Witness ==
    /\ last = "applyEdits"
    /\ result = Some(TRUE)
    /\ Len(args[2]) = 2
    /\ args[3].undoStopBefore
    /\ ~args[3].undoStopAfter
    /\ Len(WidgetCallsOfEdits(calls)) = 2
    /\ calls[Len(calls)][1] = "executeEdits"

\* whether the clipboard is among the calls
ReadsClipboard(cs) == \E i \in DOMAIN cs : cs[i][1] = "readText"

\* setSelections(ranges), focus(), then one insert of the template with the
\* clipboard text given
ExpansionCalls(template, ranges, opts, clipboardText) ==
    << <<"setSelections", ranges>>,
       <<"focus">>,
       <<"insert", template,
         [overwriteBefore |-> 0, overwriteAfter |-> 0,
          undoStopBefore |-> opts.undoStopBefore,
          undoStopAfter |-> opts.undoStopAfter,
          clipboardText |-> clipboardText]>> >>

\* C25 as stated: insertSnippet on an editor with a widget reads the
\* clipboard if and only if the template names it.
C25_ReadsClipboardIffNeeded ==
    [][(last' = "insertSnippet" /\ codeEditor # NoEditor)
           => (ReadsClipboard(calls') <=> guessNeedsClipboard(args'[1]))]_vars

\* C25 amended: insertSnippet on an editor whose widget has a model reads
\* the clipboard if and only if the template names it, and on a widget
\* without a model returns false and reads nothing. When it goes on, at once
\* or after the read, it calls setSelections with the ranges given, focus,
\* and insert once, in this order, with the clipboard text that was read or
\* with none, and returns true.
C25_ClipboardThenExpansion ==
    [][/\ (last' = "insertSnippet" /\ codeEditor # NoEditor)
            => IF ~hasModel(widgets[codeEditor])
               THEN result' = Some(FALSE) /\ calls' = <<>> /\ snippet' = None
               ELSE IF guessNeedsClipboard(args'[1])
               THEN /\ calls' = << <<"readText">> >>
                    /\ result' = NoResult
                    /\ snippet' # None
               ELSE /\ calls' = ExpansionCalls(args'[1], args'[2], args'[3], Undefined)
                    /\ result' = Some(TRUE)
                    /\ snippet' = None
       /\ (last' = "insertSnippet.resume")
            => /\ result' = Some(TRUE)
                    <=> calls' = ExpansionCalls(Val(snippet).template, Val(snippet).ranges,
                                                Val(snippet).opts, args'[1])
               /\ result' # Some(TRUE) => calls' = <<>>
               /\ snippet' = None]_vars

\* the read has completed and the template is expanded with the text read
C25_Witness ==
    /\ last = "insertSnippet.resume"
    /\ result = Some(TRUE)
    /\ codeEditor = "w1"
    /\ Len(calls) = 3
    /\ calls[3][1] = "insert"
    /\ calls[3][3].clipboardText = "copied"
    /\ widgets["w1"].selections = calls[1][2]

\* the copy a consumer holding A has after the deltas of ds, in order
RECURSIVE ApplyAll(_, _)
ApplyAll(A, ds) ==
    IF ds = <<>> THEN A ELSE ApplyAll(ApplyDelta(A, Some(Head(ds))), Tail(ds))

\* C26: in every step a consumer that holds the snapshot of before and
\* overwrites it with the present sub-records of the deltas the step emits,
\* in order, holds the snapshot of after.
C26_DeltasCarryEveryChange ==
    [][(IsSome(properties) /\ IsSome(properties'))
           => ApplyAll(Val(properties), fired') = Val(properties')]_vars

\* a document configuration change has moved the snapshot's options and the
\* delta emitted carries them alone
C26_Witness ==
    /\ last = "onDidChangeOptions"
    /\ Len(fired) = 1
    /\ IsSome(fired[1].options)
    /\ ~IsSome(fired[1].selections)
    /\ Val(fired[1].options) = Val(properties).options
    /\ codeEditor # NoEditor

\* C27: setCodeEditor with the widget already bound, or with null on an
\* unbound editor, changes nothing: the listeners, the source kept for the
\* deferred events and the snapshot stay, nothing is fired, and the widget
\* event that follows fires one delta at most.
C27_SameWidgetIsNoOp ==
    [][/\ (last' = "setCodeEditor" /\ args'[1] = codeEditor)
            => /\ codeEditor' = codeEditor
               /\ codeEditorListeners' = codeEditorListeners
               /\ modelListeners' = modelListeners
               /\ nextSelectionChangeSource' = nextSelectionChangeSource
               /\ properties' = properties
               /\ fired' = <<>>
               /\ calls' = <<>>
       /\ (last = "setCodeEditor" /\ args[1] = args[2] /\ last' \in WidgetEventOps)
            => Len(fired') <= 1]_vars

\* w1 is bound again while a keyboard selection change of w1 waits for its
\* document: the source is kept and the snapshot still shows the old
\* selections
C27_Witness ==
    /\ last = "setCodeEditor"
    /\ args = <<"w1", "w1">>
    /\ codeEditor = "w1"
    /\ ~caughtUp
    /\ nextSelectionChangeSource = "keyboard"
    /\ codeEditorListeners = {"w1"}
    /\ fired = <<>>
    /\ Val(properties).selections # widgets["w1"].selections

\* C28 as stated: once no catalog request is outstanding, the version
\* dropdown lists the versions of the model's (vmImage, vmImageSKU) pair and
\* no loading indicator is on.
C28_VersionsOfCurrentPair ==
    (requests = EmptyBag /\ dropdowns.version.values # <<>>)
        => /\ dropdowns.version.values
                  = VersionsOf(wizardModel.vmImage, wizardModel.vmImageSKU)
           /\ \A d \in DOMAIN loading : ~loading[d]

\* C29 as stated: after a change of the sku dropdown the model's vmImageSKU
\* is the name selected in the sku dropdown, and after a change of the size
\* dropdown the model's vmSize is the name selected in the size dropdown.
C29_HandlerStoresOwnDropdown ==
    /\ (pageLast = "sku.onValueChanged" /\ ~pageThrew)
          => wizardModel.vmImageSKU = valueOf(dropdowns.sku, FALSE)
    /\ (pageLast = "size.onValueChanged" /\ ~pageThrew)
          => wizardModel.vmSize = valueOf(dropdowns.size, TRUE)

\* C30: a click, a tap, an Enter key or a Space key on a button fires its
\* onDidClick, once, if and only if the last value given to `enabled` was
\* true or none was given; the Escape key takes the focus from the button
\* and fires nothing, whatever `enabled` is.
C30_DisabledNeverClicks ==
    [][/\ (\/ buttonLast'.op \in {"click", "tap"}
           \/ (buttonLast'.op = "keydown" /\ buttonLast'.key \in {"Enter", "Space"}))
            => clicked' = (IF assigned[buttonLast'.index + 1] # Some(FALSE)
                           THEN <<buttonLast'.index>> ELSE <<>>)
       /\ (buttonLast'.op = "keydown" /\ buttonLast'.key = "Escape")
            => /\ clicked' = <<>>
               /\ focused' # Some(buttonLast'.index)]_vars

\* button 1 was disabled, and the click on it is stopped with no onDidClick
\* fired
C30_Witness ==
    /\ buttonLast.op = "click"
    /\ buttonLast.index = 1
    /\ assigned[2] = Some(FALSE)
    /\ ~enabled(buttons[2])
    /\ clicked = <<>>
    /\ stopped

\* the button an arrow key pressed on button i of n leads to
Neighbour(i, n, key) == IF key = "RightArrow" THEN (i + 1) % n ELSE (i + n - 1) % n

\* the focus after the key is pressed k times, each time on the button that
\* has the focus
RECURSIVE Presses(_, _, _, _)
Presses(bs, f, key, k) ==
    IF k = 0 \/ ~IsSome(f) THEN f
    ELSE Presses(bs, onGroupKeyDown(bs, f, Val(f), key).focused, key, k - 1)

FocusInRange == focused = None \/ (IsSome(focused) /\ Val(focused) \in 0..(Len(buttons) - 1))

\* C31 as stated: in a group of more than one button an arrow key on button
\* i moves the focus to its neighbour modulo count, count presses of one
\* arrow lead back to the button they started from, any other key moves no
\* focus, an arrow in a group of one button moves none, and the focus is on
\* a button of the group or on none.
C31_ArrowsCycleFocus ==
    [][(buttonLast'.op = "keydown")
           => LET i == buttonLast'.index
                  key == buttonLast'.key
                  n == Len(buttons)
              IN  /\ (n > 1 /\ key \in {"LeftArrow", "RightArrow"})
                        => /\ focused' = Some(Neighbour(i, n, key))
                           /\ Presses(buttons, Some(i), key, n) = Some(i)
                  /\ (n = 1 \/ key \notin {"LeftArrow", "RightArrow"})
                        => focused' = focused
                  /\ FocusInRange']_vars

\* C31 amended: an arrow key on button i of more than one moves the focus to
\* the neighbour modulo count when that neighbour is enabled and leaves the
\* focus where it is when the neighbour is disabled; with every button
\* enabled, count presses of one arrow lead back to the button they started
\* from. The Escape key takes the focus from the button it is pressed on;
\* any other key, and an arrow in a group of one button, moves no focus. The
\* focus is on a button of the group or on none.
C31_ArrowsCycleOverEnabled ==
    [][(buttonLast'.op = "keydown")
           => LET i == buttonLast'.index
                  key == buttonLast'.key
                  n == Len(buttons)
              IN  /\ (n > 1 /\ key \in {"LeftArrow", "RightArrow"})
                        => /\ focused' = (IF enabled(buttons[Neighbour(i, n, key) + 1])
                                          THEN Some(Neighbour(i, n, key)) ELSE focused)
                           /\ (\A j \in 1..n : enabled(buttons[j]))
                                 => Presses(buttons, Some(i), key, n) = Some(i)
                  /\ key = "Escape"
                        => focused' = (IF focused = Some(i) THEN None ELSE focused)
                  /\ (key \notin {"LeftArrow", "RightArrow", "Escape"}
                          \/ (n = 1 /\ key # "Escape"))
                        => focused' = focused
                  /\ FocusInRange']_vars

\* RightArrow on the last of three buttons has moved the focus from it to
\* the first
C31_Witness ==
    /\ buttonLast.op = "keydown"
    /\ buttonLast.key = "RightArrow"
    /\ Len(buttons) = 3
    /\ buttonLast.index = 2
    /\ focused = Some(0)
    /\ \A j \in 1..3 : enabled(buttons[j])

=============================================================================
